---- MODULE Spec2Model ----
(***************************************************************************)
(* Model of the chat server built by createChatServer (index.js): the      *)
(* presence registry (activeUsers), the per-connection socket.user, the    *)
(* room index of the Socket.IO adapter and the handlers bound to every     *)
(* connection.  Every handler is one atomic action (Node runs a handler    *)
(* to completion), and every emit call of a handler is recorded, in the    *)
(* order of the calls, with the set of connections the adapter delivers    *)
(* it to.                                                                  *)
(***************************************************************************)
EXTENDS Integers, FiniteSets, Sequences, TLC

(***************************************************************************)
(* Bounds of the model.                                                    *)
(***************************************************************************)
\* Number of transport events (connects, inbound events, disconnects) of a run.
MaxEvents == 5
\* The observation counters saturate at this value.
MaxCount == 2
\* Date.now() advances at most this many ticks.
MaxTime == 2
\* Events the connections send while the packet queues are followed.
MaxQueue == 3

(***************************************************************************)
(* Input domains.                                                          *)
(***************************************************************************)
\* Connection ids (socket.id), assigned by the transport and never reused;
\* they are named in the order of the handshakes.
Conns == {"c1", "c2", "c3"}
Arrival == [c \in Conns |-> IF c = "c1" THEN 1 ELSE IF c = "c2" THEN 2 ELSE 3]
\* Server processes sharing one Redis fan-out; c1 and c2 are attached to the
\* same process, c3 to another one.
Procs == {"p1", "p2"}
ProcOf(c) == IF c = "c3" THEN "p2" ELSE "p1"
\* Room names a client can send.  A room name is an arbitrary string, so it
\* can also be the id of a connection: Socket.IO puts every socket in the room
\* named by its own id.
NamedRooms == {"lobby"}
RoomNames == NamedRooms \cup Conns
\* A room field that is absent or empty (falsy in `if (room)`).
NoRoom == ""
\* A field that is absent from an object (undefined).
Absent == "undefined"
\* The origin of what the application or the startup does: not a connection.
Server == Absent
\* A timestamp field that is absent from an object.
NoTime == -1
\* A missing object (socket.user === undefined, Map.get miss).
Undefined == [undefined |-> TRUE]
\* Disconnect reasons given by the transport.
Reasons == {"transport close", "ping timeout"}

\* user:join payloads (userData): a full profile, an empty one, and one that
\* carries its own id, connectedAt and lastSeen fields.
Profiles ==
  { [id |-> Absent, name |-> "alice", email |-> "alice@x", status |-> "online",
     connectedAt |-> NoTime, lastSeen |-> NoTime],
    [id |-> Absent, name |-> Absent, email |-> Absent, status |-> Absent,
     connectedAt |-> NoTime, lastSeen |-> NoTime],
    [id |-> "spoof", name |-> "bob", email |-> Absent, status |-> Absent,
     connectedAt |-> 9, lastSeen |-> 0] }

\* The default options: no hooks, typing indicators and read receipts on,
\* no REST API.
Defaults ==
  [onAuth |-> FALSE, onConnect |-> FALSE, onDisconnect |-> FALSE,
   enableTyping |-> TRUE, enableReadReceipts |-> TRUE,
   enableRestApi |-> FALSE, restApiAuth |-> FALSE, expressApp |-> FALSE]

\* The options of the backend integration example: its onAuth, onConnect and
\* onDisconnect hooks, and the REST API mounted on its Express app without
\* API authentication.
Example ==
  [Defaults EXCEPT !.onAuth = TRUE, !.onConnect = TRUE, !.onDisconnect = TRUE,
                   !.enableRestApi = TRUE, !.expressApp = TRUE]

\* Startup options: the defaults, and the backend integration example.
Configs == {Defaults, Example}

\* Startup options for the REST API: off (the default), the example, on
\* with API authentication, and on without an Express app to mount it on.
RestConfigs ==
  { Defaults, Example,
    [Defaults EXCEPT !.enableRestApi = TRUE, !.restApiAuth = TRUE,
                     !.expressApp = TRUE],
    [Defaults EXCEPT !.enableRestApi = TRUE] }

\* Startup options with the typing indicators or the read receipts switched
\* off (enableTyping: false, enableReadReceipts: false), next to the defaults.
FlagConfigs ==
  { Defaults,
    [Defaults EXCEPT !.enableTyping = FALSE],
    [Defaults EXCEPT !.enableReadReceipts = FALSE] }

\* How connecting the Redis clients at startup ends, in each process: the
\* promise resolves, or the connection fails.  Until then createChatServer is
\* suspended at its await ("pending").
RedisOutcomes == {"ready", "error"}

\* The e-mail addresses of the login requests: two with a local part, and one
\* without (any non-empty string passes the `email && password` test).
Emails == {"dave@x", "erin@x", "@x"}

\* email.split('@')[0]: the text before the first "@", empty for "@x".
LocalPart(email) ==
  CASE email = "dave@x" -> "dave"
    [] email = "erin@x" -> "erin"
    [] email = "@x" -> ""

\* `token-${Date.now()}`, `user-${Date.now()}`, `room-${Date.now()}`
Token(t) == "token-" \o ToString(t)
UserId(t) == "user-" \o ToString(t)
RoomId(t) == "room-" \o ToString(t)

\* A request or handshake that carries no token.
NoToken == Absent

\* The tokens a client presents: none, or one a login may have issued (it
\* is valid only where the users Map of the process holds it).
Presented == {NoToken} \cup {Token(t) : t \in 0..MaxTime}

\* The same where the clock stands while the server runs: every login issues
\* Token(0), and Token(1) is a token no login issued.
PresentedEarly == {NoToken, Token(0), Token(1)}

\* The logins where it does not matter whose account a socket presents.
OneEmail == {"dave@x"}

\* The user object the login route of the example creates,
\* { id, email, name, token }: t1 is the clock read for the token, t2 the
\* one for the id.  The example auth hook attaches the object itself, so the
\* sockets that presented its token share it.
AccountUser(email, t1, t2) ==
  [id |-> UserId(t2), name |-> LocalPart(email), email |-> email,
   token |-> Token(t1), status |-> Absent, connectedAt |-> NoTime,
   lastSeen |-> NoTime]

\* socket.user is not an object of the users Map.
NoRef == 0

\* Clock units that pass between two reads of Date.now() in one handler run.
Lags == {0, 1}

VARIABLES
  opts,         \* the options createChatServer was called with
  redis,        \* per process: how the awaits of the Redis clients ended
  now,          \* Date.now()
  conn,         \* per connection: "idle", "connected", "refused", "closed"
  auth,         \* per connection: the auth hook's outcome ("none" before)
  socketUser,   \* socket.user of each connection, or Undefined
  socketRef,    \* per connection: which object of heap socket.user is
                \* (NoRef when it is none of them)
  heap,         \* per process: the user objects the login route created,
                \* in the order of their creation
  users,        \* per process: the users Map of the example, token -> the
                \* object stored under it (its position in heap)
  appRooms,     \* per process: the rooms Map of the example, id -> room
  activeUsers,  \* per process: the Map socket id -> user record
  typingUsers,  \* per process: the keys of the Map typingUsers
  rooms,        \* adapter.rooms: room name -> set of socket ids
  \* observation (history) variables
  steps,        \* number of events handled so far
  handled,      \* the event handled by the last step
  emitted,      \* the emit calls of the last step, in call order
  seen,         \* seen[r][c]: user:joined / user:left of c delivered to r
  joins,        \* user:join events handled per connection
  expectedSize, \* registry size before c's first user:join, adjusted by
                \* what other connections added or removed since; -1 before
  stayed,       \* connections connected ever since c's first user:join
  lastTyping,   \* pairs <<c, room>>: c's latest typing event for room was
                \* typing:start
  hookCalls,    \* per connection: the extension hooks run, in order
  known,        \* known[a]: the connections whose record a users:list
                \* sent to a contained, or whose user:joined was
                \* delivered to a after a's first user:join
  order         \* the packet queues of the connections when they are
                \* followed (NoLog otherwise): inq[c] the events received
                \* from c and not yet dispatched, count the events
                \* received so far, done[c] the arrival numbers of the events
                \* of c dispatched, wire[r] the packets written to r

cvars == <<opts, redis, now, conn, auth, socketUser, socketRef, heap, users,
          appRooms, activeUsers, typingUsers, rooms>>
hvars == <<steps, handled, emitted, seen, joins, expectedSize, stayed,
          lastTyping, hookCalls, known, order>>
vars == <<cvars, hvars>>

(***************************************************************************)
(* The transport: Socket.IO's adapter, as the handlers use it.             *)
(***************************************************************************)
\* nsp.sockets: the sockets currently connected, with handlers or without.
Sockets == {c \in Conns : conn[c] \in {"connected", "unbound"}}

\* adapter.sids of the adapter that io.adapter(createAdapter(...)) installs,
\* the one every emit goes through: the sockets that connected after it was
\* installed.  A socket that connected before keeps the adapter it was
\* constructed with, which no emit reaches.
Sids == {c \in Conns : conn[c] = "connected"}

\* Members of a room (adapter.rooms.get(room), empty when there is none).
Members(rm, room) == IF room \in DOMAIN rm THEN rm[room] ELSE {}

\* adapter.computeExceptSids: the excluded sockets are the members of the
\* excluded rooms.
ExceptSids(rm, except) == UNION {Members(rm, e) : e \in except}

\* adapter.apply: the sockets a broadcast with the given target rooms and
\* excluded rooms is written to; without target rooms, every socket.
Apply(socks, rm, targets, except) ==
  IF targets # {}
  THEN {c \in socks : /\ \E r \in targets : c \in Members(rm, r)
                      /\ c \notin ExceptSids(rm, except)}
  ELSE {c \in socks : c \notin ExceptSids(rm, except)}

\* socket.broadcast: no target room, the room named socket.id excluded.
SocketBroadcast(socks, rm, s) == Apply(socks, rm, {}, {s})
\* socket.to(room): the room as target, the room named socket.id excluded.
SocketTo(socks, rm, s, room) == Apply(socks, rm, {room}, {s})
\* nsp.to(room): the room as target, nothing excluded.
NspTo(socks, rm, room) == Apply(socks, rm, {room}, {})
\* socket.emit: the packet is written to the socket itself.
SocketEmit(s) == {s}

\* socket.join(room) / socket.leave(room): adapter.addAll / adapter.del.
AdapterAdd(rm, s, room) == [rm EXCEPT ![room] = @ \cup {s}]
\* Mutant of AdapterDel: the socket stays in the room.
AdapterDel_Keeps(rm, s, room) == rm
AdapterDel(rm, s, room) == [rm EXCEPT ![room] = @ \ {s}]
\* socket._cleanup on close: adapter.delAll.
AdapterDelAll(rm, s) == [r \in DOMAIN rm |-> rm[r] \ {s}]

\* One emit call: the event, the originating socket, the sockets it is
\* delivered to, and the payload.
Call(ev, from, to, data) == [ev |-> ev, from |-> from, to |-> to, data |-> data]

(***************************************************************************)
(* The presence registry.                                                  *)
(***************************************************************************)
\* Map.set / Map.delete / Map.get / Array.from(Map.values()).
MapSet(m, k, v) == [x \in (DOMAIN m) \cup {k} |-> IF x = k THEN v ELSE m[x]]
MapDelete(m, k) == [x \in (DOMAIN m) \ {k} |-> m[x]]
MapGet(m, k) == IF k \in DOMAIN m THEN m[k] ELSE Undefined
MapValues(m) == {m[k] : k \in DOMAIN m}
EmptyMap == [x \in {} |-> Undefined]

\* Number of records of all registries.
RegistrySize(au) == Cardinality({<<p, k>> \in Procs \X Conns : k \in DOMAIN au[p]})

\* { id: socket.id, ...userData, connectedAt: Date.now(), lastSeen: Date.now() }
\* A field of userData overrides the one written before the spread (id), and
\* is replaced by the one written after it (connectedAt, lastSeen).
\* t1 and t2 are the two reads of Date.now(), in this order.  The payloads
\* carry no token.
NewUser(c, userData, t1, t2) ==
  [id |-> IF userData.id # Absent THEN userData.id ELSE c,
   name |-> userData.name,
   email |-> userData.email,
   token |-> Absent,
   status |-> userData.status,
   connectedAt |-> t1,
   lastSeen |-> t2]

\* Whether socket.user of c is an object of the users Map.
IsAccount(sr, c) == sr[c] # NoRef

\* The sockets whose socket.user is the object socket.user of c is.
SameObject(sr, c) ==
  IF IsAccount(sr, c)
  THEN {d \in Conns : ProcOf(d) = ProcOf(c) /\ sr[d] = sr[c]}
  ELSE {c}

\* socket.user of every socket after a field of c's socket.user was
\* assigned, `user` being the object after the assignment.
StoreUser(su, sr, c, user) ==
  [d \in Conns |-> IF d \in SameObject(sr, c) THEN user ELSE su[d]]

\* The objects of the users Map after the same assignment.
StoreAccount(h, sr, c, user) ==
  IF IsAccount(sr, c) THEN [h EXCEPT ![ProcOf(c)][sr[c]] = user] ELSE h

\* The registries after the same assignment.  The record under a socket id
\* is the object socket.user of that socket is (every activeUsers.set stores
\* socket.user), so the records of the sockets sharing the object show it.
Assigned(au, sr, c, user) ==
  [au EXCEPT ![ProcOf(c)] =
     [k \in DOMAIN @ |-> IF k \in SameObject(sr, c) THEN user ELSE @[k]]]

(***************************************************************************)
(* Observation.                                                            *)
(***************************************************************************)
Sat(n) == IF n > MaxCount THEN MaxCount ELSE n

\* Number of calls of `calls` with event ev from socket s delivered to r.
RECURSIVE Deliveries(_, _, _, _)
Deliveries(calls, ev, s, r) ==
  IF calls = <<>> THEN 0
  ELSE (IF /\ Head(calls).ev = ev
           /\ Head(calls).from = s
           /\ r \in Head(calls).to THEN 1 ELSE 0)
       + Deliveries(Tail(calls), ev, s, r)

\* Number of calls of `calls` with event ev from socket s.
RECURSIVE Calls(_, _, _)
Calls(calls, ev, s) ==
  IF calls = <<>> THEN 0
  ELSE (IF Head(calls).ev = ev /\ Head(calls).from = s THEN 1 ELSE 0)
       + Calls(Tail(calls), ev, s)

\* The packet queues are not followed.
NoLog == [off |-> TRUE]

\* The packet queues of a server that has just started.
EmptyLog ==
  [inq |-> [c \in Conns |-> <<>>], count |-> 0,
   done |-> [c \in Conns |-> <<>>], wire |-> [c \in Conns |-> <<>>]]

\* The events that are dispatched from the queue of their connection.
QueuedEvents == {"message", "typing:start", "typing:stop"}

\* The socket hands the packets of its connection to the handlers in the
\* order it received them, one handler run at a time.
Dequeue(q) == [entry |-> Head(q), rest |-> Tail(q)]

\* The packets the emit calls `out` of connection c, made for its event
\* number seq, write to receiver r, in call order.
RECURSIVE Written(_, _, _, _)
Written(out, r, c, seq) ==
  IF out = <<>> THEN <<>>
  ELSE (IF r \in Head(out).to
        THEN << [from |-> c, seq |-> seq, ev |-> Head(out).ev] >> ELSE <<>>)
       \o Written(Tail(out), r, c, seq)

\* The packet queues after connection c's handler of `event` made the emit
\* calls `out`: the event leaves the queue and its packets follow the earlier
\* ones on the wire of each receiver.
Logged(c, event, out) ==
  IF order = NoLog \/ event.ev \notin QueuedEvents THEN order
  ELSE LET d == Dequeue(order.inq[c]) IN
       [order EXCEPT !.inq[c] = d.rest,
                     !.done[c] = Append(@, d.entry.seq),
                     !.wire = [r \in Conns |->
                                @[r] \o Written(out, r, c, d.entry.seq)]]

\* The connections whose registry record (in the registries au) is in a
\* users:list payload that the calls `out` deliver to a.
Listed(out, a, au) ==
  {b \in Conns : \E i \in 1..Len(out) :
     /\ out[i].ev = "users:list"
     /\ a \in out[i].to
     /\ b \in DOMAIN au[ProcOf(b)]
     /\ au[ProcOf(b)][b] \in out[i].data.users}

\* The connections whose user:joined the calls `out` deliver to a.
Announced(out, a) ==
  {out[i].from : i \in {j \in 1..Len(out) :
     out[j].ev = "user:joined" /\ a \in out[j].to}}

\* The step of connection c handling `event` made the emit calls `out`.
Observe(c, event, out) ==
  /\ steps' = steps + 1
  /\ handled' = event
  /\ emitted' = out
  /\ seen' = [r \in Conns |-> [s \in Conns |->
       [joined |-> Sat(seen[r][s].joined + Deliveries(out, "user:joined", s, r)),
        left |-> Sat(seen[r][s].left + Deliveries(out, "user:left", s, r))]]]
  /\ joins' = IF event.ev = "user:join"
              THEN [joins EXCEPT ![c] = Sat(@ + 1)] ELSE joins
  /\ expectedSize' = [x \in Conns |->
       IF x = c
       THEN (IF event.ev = "user:join" /\ joins[c] = 0
             THEN RegistrySize(activeUsers) ELSE expectedSize[x])
       ELSE (IF expectedSize[x] = -1 \/ conn[x] # "connected"
             THEN expectedSize[x]
             ELSE expectedSize[x] + RegistrySize(activeUsers')
                                  - RegistrySize(activeUsers))]
  /\ stayed' = [x \in Conns |->
       IF x = c /\ event.ev = "user:join" /\ joins[c] = 0
       THEN Sockets \ {c}
       ELSE IF event.ev \in {"disconnect", "close"}
               /\ conn[x] = "connected" /\ x # c
            THEN stayed[x] \ {c}
            ELSE stayed[x]]
  /\ lastTyping' =
       IF event.ev = "typing:start" THEN lastTyping \cup {<<c, event.room>>}
       ELSE IF event.ev = "typing:stop" THEN lastTyping \ {<<c, event.room>>}
       ELSE lastTyping
  /\ known' = [a \in Conns |->
       known[a] \cup Listed(out, a, activeUsers')
                \cup (IF joins[a] > 0 THEN Announced(out, a) ELSE {})]
  /\ order' = Logged(c, event, out)

(***************************************************************************)
(* Initial state: createChatServer has returned, nobody is connected.      *)
(***************************************************************************)
Created(cfgs, outcomes, log) ==
  /\ order = log
  /\ opts \in cfgs
  /\ redis \in [Procs -> outcomes]
  /\ now = 0
  /\ conn = [c \in Conns |-> "idle"]
  /\ auth = [c \in Conns |-> "none"]
  /\ socketUser = [c \in Conns |-> Undefined]
  /\ socketRef = [c \in Conns |-> NoRef]
  /\ heap = [p \in Procs |-> <<>>]
  /\ users = [p \in Procs |-> EmptyMap]
  /\ appRooms = [p \in Procs |-> EmptyMap]
  /\ activeUsers = [p \in Procs |-> EmptyMap]
  /\ typingUsers = [p \in Procs |-> {}]
  /\ rooms = [r \in RoomNames |-> {}]
  /\ steps = 0
  /\ handled = [ev |-> "start", conn |-> Absent]
  /\ emitted = <<>>
  /\ seen = [r \in Conns |-> [s \in Conns |-> [joined |-> 0, left |-> 0]]]
  /\ joins = [c \in Conns |-> 0]
  /\ expectedSize = [c \in Conns |-> -1]
  /\ stayed = [c \in Conns |-> {}]
  /\ lastTyping = {}
  /\ known = [c \in Conns |-> {}]
  /\ hookCalls = [c \in Conns |-> <<>>]

\* createChatServer has returned: both Redis clients are connected.
Start(cfgs) == Created(cfgs, {"ready"}, NoLog)

Init == Start(Configs)

\* createChatServer was called on a server that accepts connections, and is
\* suspended at `await pubClient.connect()`.
InitStartup == Created(Configs, {"pending"}, NoLog)

\* The server started and the packet queues are followed.
InitOrder == Created(Configs, {"ready"}, EmptyLog)

\* The server started with one of the flag configurations.
InitFlags == Start(FlagConfigs)

(***************************************************************************)
(* Connection: the auth middleware, then the connection callback.          *)
(***************************************************************************)
\* Mutant of Installs: the handlers are installed whatever Redis answered.
Installs_Degraded(outcome) == TRUE

\* Whether createChatServer gets past `await pubClient.connect()` and
\* `await subClient.connect()` to the statements that install the auth
\* middleware and the connection callback: a failed connection throws out of
\* the async function (or never resolves) and the rest does not run.
Installs(outcome) == outcome = "ready"

\* What the core has done for connection c at some point of a handler: reg
\* and typ are the registry and the typing keys of c's process at that point,
\* out the emit calls made so far.
CoreDone(c, reg, typ, out) ==
  [registered |-> c \in DOMAIN reg, tracked |-> c \in typ, emits |-> Len(out)]

\* One run of an extension hook (onConnect?.(socket, nsp) or
\* onDisconnect?.(socket, nsp)) and the state of the core it finds.
HookCall(name, done) == [hook |-> name, done |-> done]

\* Mutant of Admit: the verdict of the auth hook is ignored.
Admit_Ignored(outcome) == TRUE

\* nsp.use(onAuth): the connection callback runs unless the hook called
\* next(err).
Admit(outcome) == outcome # "deny"

\* A string value is truthy unless it is undefined or empty.
Truthy(v) == v \notin {Absent, ""}

\* socket.user?.name || socket.id
DisplayName(c) ==
  IF socketUser[c] # Undefined /\ Truthy(socketUser[c].name)
  THEN socketUser[c].name ELSE c

\* Mutant of Sender: socket.user is used without the fallback.
Sender_NoFallback(c) == socketUser[c]

\* socket.user || { id: socket.id, name: socket.id }
Sender(c) ==
  IF socketUser[c] # Undefined THEN socketUser[c] ELSE [id |-> c, name |-> c]

\* The hooks of the example read socket.user.name in their first statement:
\* on a socket without user object they throw there and do nothing else.
HookActs(user) == user # Undefined

\* array.includes(x)
Includes(array, x) == \E i \in 1..Len(array) : array[i] = x

\* The onAuth hook of the example: next(err) without a token or with one the
\* users Map of the process does not hold ("deny"), else
\* `socket.user = user; next()` ("attach").  Without a hook the handshake is
\* admitted ("allow").
AuthOutcome(p, token) ==
  IF ~opts.onAuth THEN "allow"
  ELSE IF token = NoToken \/ token \notin DOMAIN users[p] THEN "deny"
  ELSE "attach"

\* userRooms of the example's onConnect hook: the names of the rooms of the
\* rooms Map whose members include socket.user.id.
UserRooms(ar, user) ==
  {ar[k].name : k \in {x \in DOMAIN ar : Includes(ar[x].members, user.id)}}

\* The same hook's socket.join calls: the adapter rooms after them.
ConnectHookRooms(rm, c, user, ar) ==
  [r \in DOMAIN rm |->
     IF HookActs(user) /\ r \in UserRooms(ar, user)
     THEN rm[r] \cup {c} ELSE rm[r]]

\* The emit of the same hook: socket.emit("user:join", {...}).
ConnectHookCalls(c, user) ==
  IF HookActs(user)
  THEN << Call("user:join", c, SocketEmit(c),
               [name |-> user.name, email |-> user.email,
                status |-> "online"]) >>
  ELSE <<>>

\* A handshake of connection c, presenting `token`, on a process that has
\* started.  The auth hook, when configured, runs first; an admitted socket is
\* put in the room named by its id, the handlers are bound to it and the
\* connect hook runs.
Connect(c, token) ==
  /\ steps < MaxEvents
  /\ Installs(redis[ProcOf(c)])
  /\ conn[c] = "idle"
  /\ \A d \in Conns : Arrival[d] < Arrival[c] => conn[d] # "idle"
  /\ UNCHANGED <<users, heap, appRooms, opts, redis, now, activeUsers,
                 typingUsers>>
  /\ LET p == ProcOf(c)
         outcome == AuthOutcome(p, token)
         ref == IF outcome = "attach" THEN users[p][token] ELSE NoRef
         user == IF outcome = "attach" THEN heap[p][ref] ELSE Undefined
     IN
     /\ auth' = [auth EXCEPT ![c] = outcome]
     /\ IF Admit(outcome)
        THEN /\ conn' = [conn EXCEPT ![c] = "connected"]
             /\ rooms' = IF opts.onConnect
                         THEN ConnectHookRooms(AdapterAdd(rooms, c, c), c,
                                               user, appRooms[p])
                         ELSE AdapterAdd(rooms, c, c)
             /\ socketUser' = [socketUser EXCEPT ![c] = user]
             /\ socketRef' = [socketRef EXCEPT ![c] = ref]
             /\ hookCalls' = [hookCalls EXCEPT ![c] =
                  IF opts.onConnect
                  THEN Append(@, HookCall("onConnect",
                         CoreDone(c, activeUsers[p], typingUsers[p], <<>>)))
                  ELSE @]
             /\ Observe(c, [ev |-> "connect", conn |-> c],
                  IF opts.onConnect THEN ConnectHookCalls(c, user) ELSE <<>>)
        ELSE /\ conn' = [conn EXCEPT ![c] = "refused"]
             /\ UNCHANGED <<rooms, socketUser, socketRef, hookCalls>>
             /\ Observe(c, [ev |-> "connect", conn |-> c], <<>>)

\* The rooms after io.adapter(createAdapter(pubClient, subClient)) in process
\* p: the namespace gets a new adapter, and the sockets that connected to the
\* process before are in no room of it.
AdapterReplaced(rm, p) == [r \in DOMAIN rm |-> {c \in rm[r] : ProcOf(c) # p}]

\* The awaits of createChatServer end in process p: with "ready" the function
\* goes on to install the Redis adapter, the auth middleware and the
\* connection callback and returns, with "error" it is left at the await.
Settle(p, outcome) ==
  /\ steps < MaxEvents
  /\ redis[p] = "pending"
  /\ redis' = [redis EXCEPT ![p] = outcome]
  /\ rooms' = IF Installs(outcome) THEN AdapterReplaced(rooms, p) ELSE rooms
  /\ UNCHANGED <<users, heap, appRooms, opts, now, conn, auth, socketUser,
                 socketRef, activeUsers, typingUsers>>
  /\ UNCHANGED hookCalls
  /\ Observe(Server, [ev |-> "startup", conn |-> Server, proc |-> p,
                      outcome |-> outcome], <<>>)

\* A handshake on a process where createChatServer is suspended at its
\* awaits, or where they failed.  `new Server(httpServer)` ran before the
\* awaits, so the transport answers on the default namespace: the socket is
\* put in the room named by its id, but there is no auth middleware, no
\* connection callback and so no handler on it, and none is added when the
\* startup completes.
ConnectUnserved(c) ==
  /\ steps < MaxEvents
  /\ ~Installs(redis[ProcOf(c)])
  /\ conn[c] = "idle"
  /\ \A d \in Conns : Arrival[d] < Arrival[c] => conn[d] # "idle"
  /\ conn' = [conn EXCEPT ![c] = "unbound"]
  /\ rooms' = AdapterAdd(rooms, c, c)
  /\ UNCHANGED <<users, heap, appRooms, opts, redis, now, auth, socketUser,
                 socketRef, activeUsers, typingUsers>>
  /\ UNCHANGED hookCalls
  /\ Observe(c, [ev |-> "connect", conn |-> c], <<>>)

\* The transport closes a socket without handlers: it leaves the rooms of its
\* adapter, it is removed from nsp.sockets and no handler runs.
CloseUnserved(c) ==
  /\ steps < MaxEvents
  /\ conn[c] = "unbound"
  /\ conn' = [conn EXCEPT ![c] = "closed"]
  /\ rooms' = AdapterDelAll(rooms, c)
  /\ UNCHANGED <<users, heap, appRooms, opts, redis, now, auth, socketUser,
                 socketRef, activeUsers, typingUsers>>
  /\ UNCHANGED hookCalls
  /\ Observe(c, [ev |-> "close", conn |-> c], <<>>)

\* An event named `name` arrives on a socket without handlers: it is dropped.
Unhandled(c, name) ==
  /\ steps < MaxEvents
  /\ conn[c] = "unbound"
  /\ UNCHANGED cvars
  /\ UNCHANGED hookCalls
  /\ Observe(c, [ev |-> "dropped", conn |-> c, name |-> name], <<>>)

\* Mutant of Bound: the handlers stay bound after the socket was closed.
Bound_AfterClose(c) ==
  steps < MaxEvents /\ conn[c] \in {"connected", "closed"}

\* Handlers exist only on a socket that got the connection callback and has
\* not been closed.
Bound(c) == steps < MaxEvents /\ conn[c] = "connected"

(***************************************************************************)
(* socket.on("user:join")                                                  *)
(***************************************************************************)
\* Mutant of Register: a record that exists is kept (no overwrite).
Register_KeepFirst(au, c, user) ==
  IF c \in DOMAIN au[ProcOf(c)] THEN au
  ELSE [au EXCEPT ![ProcOf(c)] = MapSet(@, c, user)]

\* The registry after activeUsers.set(socket.id, user).
Register(au, c, user) == [au EXCEPT ![ProcOf(c)] = MapSet(@, c, user)]

\* Mutant of UsersList: the snapshot is taken before the registration.
UsersList_BeforeSet(au, c, user) == MapValues(au[ProcOf(c)])

\* The users:list payload: the snapshot is taken after the registration.
UsersList(au, c, user) == MapValues(Register(au, c, user)[ProcOf(c)])

\* lag: the clock units passing between the reads of Date.now() for
\* connectedAt and for lastSeen.
OnUserJoin(c, userData, lag) ==
  /\ Bound(c)
  /\ now + lag <= MaxTime
  /\ LET user == NewUser(c, userData, now, now + lag) IN
     /\ activeUsers' = Register(activeUsers, c, user)
     /\ socketUser' = [socketUser EXCEPT ![c] = user]
     /\ socketRef' = [socketRef EXCEPT ![c] = NoRef]
     /\ now' = now + lag
     /\ UNCHANGED <<users, heap, appRooms, opts, redis, conn, auth, typingUsers,
                    rooms, hookCalls>>
     /\ Observe(c, [ev |-> "user:join", conn |-> c, userData |-> userData,
                    lag |-> lag],
          << Call("user:joined", c, SocketBroadcast(Sids, rooms, c), user),
             Call("users:list", c, SocketEmit(c),
                  [users |-> UsersList(activeUsers, c, user)]) >>)

(***************************************************************************)
(* socket.on("join") / socket.on("leave")                                  *)
(***************************************************************************)
OnJoin(c, room) ==
  /\ Bound(c)
  /\ rooms' = AdapterAdd(rooms, c, room)
  /\ UNCHANGED <<users, heap, appRooms, opts, redis, now, conn, auth, socketUser, socketRef, activeUsers, typingUsers,
                 hookCalls>>
  /\ Observe(c, [ev |-> "join", conn |-> c, room |-> room],
       << Call("room:joined", c, SocketEmit(c), [room |-> room]),
          Call("user:joined_room", c,
               SocketTo(Sids, AdapterAdd(rooms, c, room), c, room),
               [userId |-> c, userName |-> DisplayName(c), room |-> room]) >>)

OnLeave(c, room) ==
  /\ Bound(c)
  /\ rooms' = AdapterDel(rooms, c, room)
  /\ UNCHANGED <<users, heap, appRooms, opts, redis, now, conn, auth, socketUser, socketRef, activeUsers, typingUsers,
                 hookCalls>>
  /\ Observe(c, [ev |-> "leave", conn |-> c, room |-> room],
       << Call("room:left", c, SocketEmit(c), [room |-> room]),
          Call("user:left_room", c,
               SocketTo(Sids, AdapterDel(rooms, c, room), c, room),
               [userId |-> c, userName |-> DisplayName(c), room |-> room]) >>)

(***************************************************************************)
(* socket.on("message")                                                    *)
(***************************************************************************)
\* Mutant of MessageTargets: socket.to(room) instead of nsp.to(room).
MessageTargets_NotSender(socks, rm, c, room) ==
  IF room # NoRoom THEN SocketTo(socks, rm, c, room)
  ELSE SocketBroadcast(socks, rm, c)

\* The sockets a `message` is delivered to: the room when one is given,
\* every socket but the sender's own room otherwise.
MessageTargets(socks, rm, c, room) ==
  IF room # NoRoom THEN NspTo(socks, rm, room) ELSE SocketBroadcast(socks, rm, c)

\* The "update last seen" tail of the message handler: it tests socket.user.
TouchesRegistry(c) == socketUser[c] # Undefined

\* lags: the clock units passing between the reads of Date.now() for the
\* message id and for ts, and between those for ts and for lastSeen.
OnMessage(c, room, text, lags) ==
  /\ Bound(c)
  /\ now + lags[1] + lags[2] <= MaxTime
  /\ IF TouchesRegistry(c)
     THEN LET user == [socketUser[c] EXCEPT
                        !.lastSeen = now + lags[1] + lags[2]] IN
          /\ socketUser' = StoreUser(socketUser, socketRef, c, user)
          /\ heap' = StoreAccount(heap, socketRef, c, user)
          /\ activeUsers' =
               Register(Assigned(activeUsers, socketRef, c, user), c, user)
     ELSE UNCHANGED <<socketUser, heap, activeUsers>>
  /\ now' = now + lags[1] + lags[2]
  /\ UNCHANGED <<socketRef, users, appRooms, opts, redis, conn, auth,
                 typingUsers, rooms, hookCalls>>
  /\ Observe(c, [ev |-> "message", conn |-> c, room |-> room],
       << Call("message", c, MessageTargets(Sids, rooms, c, room),
               [id |-> <<c, now>>, user |-> Sender(c), text |-> text,
                room |-> room, ts |-> now + lags[1], readBy |-> {c}]) >>)

(***************************************************************************)
(* Typing indicators and read receipts (bound only when enabled).          *)
(***************************************************************************)
\* Mutant of OthersTargets: the room field is ignored.
OthersTargets_Global(socks, rm, c, room) == SocketBroadcast(socks, rm, c)

\* socket.to(room) when a room is given, socket.broadcast otherwise.
OthersTargets(socks, rm, c, room) ==
  IF room # NoRoom THEN SocketTo(socks, rm, c, room)
  ELSE SocketBroadcast(socks, rm, c)

\* Mutant of Listens: the three handlers are bound whatever the flags say.
Listens_Always(ev) == TRUE

\* Whether the connection callback bound a handler for event ev: the typing
\* handlers sit inside `if (enableTyping)`, the read-receipt handler inside
\* `if (enableReadReceipts)`, every other handler is bound unconditionally.
\* An event without a handler is dropped by the socket.
Listens(ev) ==
  IF ev \in {"typing:start", "typing:stop"} THEN opts.enableTyping
  ELSE IF ev = "message:read" THEN opts.enableReadReceipts
  ELSE TRUE

OnTypingStart(c, room) ==
  /\ Bound(c)
  /\ UNCHANGED cvars
  /\ UNCHANGED hookCalls
  /\ Observe(c, [ev |-> "typing:start", conn |-> c, room |-> room],
       IF Listens("typing:start")
       THEN << Call("typing:start", c, OthersTargets(Sids, rooms, c, room),
                    [userId |-> c, userName |-> DisplayName(c), room |-> room,
                     ts |-> now]) >>
       ELSE <<>>)

OnTypingStop(c, room) ==
  /\ Bound(c)
  /\ UNCHANGED cvars
  /\ UNCHANGED hookCalls
  /\ Observe(c, [ev |-> "typing:stop", conn |-> c, room |-> room],
       IF Listens("typing:stop")
       THEN << Call("typing:stop", c, OthersTargets(Sids, rooms, c, room),
                    [userId |-> c, userName |-> DisplayName(c),
                     room |-> room]) >>
       ELSE <<>>)

OnMessageRead(c, messageId, room) ==
  /\ Bound(c)
  /\ UNCHANGED cvars
  /\ UNCHANGED hookCalls
  /\ Observe(c, [ev |-> "message:read", conn |-> c, room |-> room],
       IF Listens("message:read")
       THEN << Call("message:read", c, MessageTargets(Sids, rooms, c, room),
                    [messageId |-> messageId, userId |-> c,
                     userName |-> DisplayName(c), room |-> room,
                     ts |-> now]) >>
       ELSE <<>>)

(***************************************************************************)
(* socket.on("user:status")                                                *)
(***************************************************************************)
\* The user:status event as observed: the status given, and whether the
\* registry held a record under the socket id when the handler started.
StatusEvent(c, status) ==
  [ev |-> "user:status", conn |-> c, status |-> status,
   hadRecord |-> c \in DOMAIN activeUsers[ProcOf(c)]]

OnUserStatus(c, status) ==
  /\ Bound(c)
  /\ IF socketUser[c] # Undefined
     THEN LET user == [socketUser[c] EXCEPT !.status = status,
                                            !.lastSeen = now] IN
          /\ socketUser' = StoreUser(socketUser, socketRef, c, user)
          /\ heap' = StoreAccount(heap, socketRef, c, user)
          /\ activeUsers' =
               Register(Assigned(activeUsers, socketRef, c, user), c, user)
          /\ Observe(c, StatusEvent(c, status),
               << Call("user:status_changed", c,
                       SocketBroadcast(Sids, rooms, c),
                       [userId |-> c, status |-> status,
                        userName |-> user.name]) >>)
     ELSE /\ UNCHANGED <<socketUser, heap, activeUsers>>
          /\ Observe(c, StatusEvent(c, status),
               <<>>)
  /\ UNCHANGED <<socketRef, users, appRooms, opts, redis, now, conn, auth,
                 typingUsers, rooms, hookCalls>>

(***************************************************************************)
(* socket.on("message:private")                                            *)
(***************************************************************************)
\* The recipients of the first emit: socket.to(toUserId).
PrivateTargets(socks, rm, c, toUserId) == SocketTo(socks, rm, c, toUserId)

\* lag: the clock units passing between the reads of Date.now() for the
\* message id and for ts.
OnMessagePrivate(c, toUserId, text, lag) ==
  /\ Bound(c)
  /\ now + lag <= MaxTime
  /\ now' = now + lag
  /\ UNCHANGED <<users, heap, appRooms, opts, redis, conn, auth, socketUser, socketRef, activeUsers, typingUsers,
                 rooms>>
  /\ UNCHANGED hookCalls
  /\ LET message == [id |-> <<c, now>>, from |-> Sender(c), to |-> toUserId,
                     text |-> text, ts |-> now + lag, type |-> "private"] IN
     Observe(c, [ev |-> "message:private", conn |-> c, to |-> toUserId],
       << Call("message:private", c,
               PrivateTargets(Sids, rooms, c, toUserId), message),
          Call("message:private", c, SocketEmit(c), message) >>)

(***************************************************************************)
(* socket.on("room:create")                                                *)
(***************************************************************************)
OnRoomCreate(c, roomName, isPrivate) ==
  /\ Bound(c)
  /\ rooms' = AdapterAdd(rooms, c, roomName)
  /\ UNCHANGED <<users, heap, appRooms, opts, redis, now, conn, auth, socketUser, socketRef, activeUsers, typingUsers,
                 hookCalls>>
  /\ LET roomData == [name |-> roomName, id |-> roomName, createdBy |-> c,
                      isPrivate |-> isPrivate, createdAt |-> now,
                      members |-> <<c>>] IN
     Observe(c, [ev |-> "room:create", conn |-> c, room |-> roomName],
       << Call("room:created", c, SocketEmit(c), roomData),
          Call("room:created", c,
               SocketBroadcast(Sids, AdapterAdd(rooms, c, roomName), c),
               roomData) >>)

(***************************************************************************)
(* socket.on("disconnect")                                                 *)
(***************************************************************************)
\* The user:left payload.
LeftData(c, user, reason) ==
  [userId |-> c, userName |-> user.name, reason |-> reason]

\* The disconnect as observed: the reason, and whether the registry held a
\* record under the socket id when the handler started.
DisconnectEvent(c, reason) ==
  [ev |-> "disconnect", conn |-> c, reason |-> reason,
   hadRecord |-> c \in DOMAIN activeUsers[ProcOf(c)]]

\* typingUsers.delete(socket.id), on the keys of the Map.
TypingCleared(keys, c) == keys \ {c}

\* Mutant of AtDisconnectHook: the hook is called first.
AtDisconnectHook_First(before, after) == before

\* onDisconnect?.(socket, nsp) is the last statement of the disconnect
\* handler: of the state of the core before the handler's work and after it,
\* the hook finds the latter.
AtDisconnectHook(before, after) == after

\* The onDisconnect hook of the example:
\* socket.broadcast.emit("user:status_changed", {status: 'offline', ...}).
DisconnectHookCalls(c, socks, rm) ==
  IF HookActs(socketUser[c])
  THEN << Call("user:status_changed", c, SocketBroadcast(socks, rm, c),
               [userId |-> c, status |-> "offline",
                userName |-> socketUser[c].name]) >>
  ELSE <<>>

\* The transport closes the socket (it leaves every room and is removed from
\* nsp.sockets) and then runs the disconnect handler.
OnDisconnect(c, reason) ==
  /\ Bound(c)
  /\ LET left == AdapterDelAll(rooms, c)
         socks == Sids \ {c}
         p == ProcOf(c)
         user == MapGet(activeUsers[p], c)
         reg == IF user # Undefined THEN MapDelete(activeUsers[p], c)
                ELSE activeUsers[p]
         out == IF user # Undefined
                THEN << Call("user:left", c, SocketBroadcast(socks, left, c),
                             LeftData(c, user, reason)) >>
                ELSE <<>>
         typ == TypingCleared(typingUsers[p], c)
         hook == IF opts.onDisconnect
                 THEN DisconnectHookCalls(c, socks, left) ELSE <<>>
     IN
     /\ conn' = [conn EXCEPT ![c] = "closed"]
     /\ rooms' = left
     /\ activeUsers' = [activeUsers EXCEPT ![p] = reg]
     /\ typingUsers' = [typingUsers EXCEPT ![p] = typ]
     /\ hookCalls' = [hookCalls EXCEPT ![c] =
          IF opts.onDisconnect
          THEN Append(@, HookCall("onDisconnect",
                 AtDisconnectHook(
                   CoreDone(c, activeUsers[p], typingUsers[p], <<>>),
                   CoreDone(c, reg, typ, out))))
          ELSE @]
     /\ UNCHANGED <<users, heap, appRooms, opts, redis, now, auth, socketUser, socketRef>>
     /\ Observe(c, DisconnectEvent(c, reason), out \o hook)

(***************************************************************************)
(* Arrival and dispatch of the events of one connection.                   *)
(***************************************************************************)
\* The events followed through the queues: unaddressed message, typing:start
\* and typing:stop.
OrderEvents ==
  { [ev |-> "message", room |-> NoRoom, text |-> "hi"],
    [ev |-> "typing:start", room |-> NoRoom, text |-> Absent],
    [ev |-> "typing:stop", room |-> NoRoom, text |-> Absent] }

\* A packet with event e arrives from the client of connection c and waits
\* for its handler.
Receive(c, e) ==
  /\ order # NoLog
  /\ conn[c] = "connected"
  /\ order.count < MaxQueue
  /\ order' = [order EXCEPT
       !.count = @ + 1,
       !.inq[c] = Append(@, [seq |-> order.count + 1, event |-> e])]
  /\ UNCHANGED cvars
  /\ UNCHANGED <<steps, handled, emitted, seen, joins, expectedSize, stayed,
                 lastTyping, hookCalls, known>>

\* The socket runs the handler of the next waiting event of connection c.
Dispatch(c) ==
  /\ order # NoLog
  /\ order.inq[c] # <<>>
  /\ LET e == Dequeue(order.inq[c]).entry.event IN
     \/ e.ev = "message" /\ OnMessage(c, e.room, e.text, <<0, 0>>)
     \/ e.ev = "typing:start" /\ OnTypingStart(c, e.room)
     \/ e.ev = "typing:stop" /\ OnTypingStop(c, e.room)

(***************************************************************************)
(* utils: the functions returned to the embedding application.             *)
(***************************************************************************)
\* utils is part of what createChatServer returns: the application of a
\* process has it once the awaits of that process resolved.
Returned == \E p \in Procs : Installs(redis[p])

\* utils.sendToUser(userId, event, data): nsp.to(userId).emit(event, data).
UtilSendToUser(userId, event, data) ==
  /\ steps < MaxEvents
  /\ Returned
  /\ UNCHANGED cvars
  /\ UNCHANGED hookCalls
  /\ Observe(Server, [ev |-> "utils.sendToUser", conn |-> Server, to |-> userId],
       << Call(event, Server, NspTo(Sids, rooms, userId), data) >>)

\* utils.sendToRoom(room, event, data): nsp.to(room).emit(event, data).
UtilSendToRoom(room, event, data) ==
  /\ steps < MaxEvents
  /\ Returned
  /\ UNCHANGED cvars
  /\ UNCHANGED hookCalls
  /\ Observe(Server, [ev |-> "utils.sendToRoom", conn |-> Server, room |-> room],
       << Call(event, Server, NspTo(Sids, rooms, room), data) >>)

\* utils.broadcast(event, data): nsp.emit(event, data), no target room and
\* nothing excluded.
UtilBroadcast(event, data) ==
  /\ steps < MaxEvents
  /\ Returned
  /\ UNCHANGED cvars
  /\ UNCHANGED hookCalls
  /\ Observe(Server, [ev |-> "utils.broadcast", conn |-> Server],
       << Call(event, Server, Apply(Sids, rooms, {}, {}), data) >>)

\* nsp.sockets.adapter.  nsp is the Namespace io.of(namespace) and
\* nsp.sockets its Map socket id -> Socket: a Map has no property `adapter`
\* (the adapter is nsp.adapter), so the expression is undefined whatever the
\* state of the server.
SocketsAdapter == Undefined

\* A Map without entries (new Map()).
NoRooms == [x \in {} |-> {}]

\* adapter.rooms of process p: the rooms of the sockets attached to it.
LocalRooms(p, rm) ==
  LET held == {r \in DOMAIN rm : \E c \in rm[r] : ProcOf(c) = p} IN
  [r \in held |-> {c \in rm[r] : ProcOf(c) = p}]

\* utils.getRooms() of process p.
GetRooms(p, rm) ==
  IF SocketsAdapter = Undefined THEN NoRooms ELSE LocalRooms(p, rm)

\* utils.getUsersInRoom(room) of process p.
GetUsersInRoom(p, rm, room) ==
  IF SocketsAdapter = Undefined THEN {}
  ELSE Members(LocalRooms(p, rm), room)

UtilGetRooms(p) ==
  /\ steps < MaxEvents
  /\ Installs(redis[p])
  /\ UNCHANGED cvars
  /\ UNCHANGED hookCalls
  /\ Observe(Server, [ev |-> "utils.getRooms", conn |-> Server, proc |-> p,
                      result |-> GetRooms(p, rooms)], <<>>)

UtilGetUsersInRoom(p, room) ==
  /\ steps < MaxEvents
  /\ Installs(redis[p])
  /\ UNCHANGED cvars
  /\ UNCHANGED hookCalls
  /\ Observe(Server, [ev |-> "utils.getUsersInRoom", conn |-> Server,
                      proc |-> p, room |-> room,
                      result |-> GetUsersInRoom(p, rooms, room)], <<>>)

(***************************************************************************)
(* The application of the example: its users and rooms Maps and the routes  *)
(* that change them.                                                       *)
(***************************************************************************)
\* Names of the rooms the application creates, and a request without one.
AppRoomNames == NamedRooms \cup {Absent}

\* Bodies of the login requests: complete ones (one with an address without
\* local part), one without e-mail address
\* and one without password.
LoginBodies ==
  { [email |-> "dave@x", password |-> TRUE],
    [email |-> "erin@x", password |-> TRUE],
    [email |-> "@x", password |-> TRUE],
    [email |-> Absent, password |-> TRUE],
    [email |-> "dave@x", password |-> FALSE] }

\* The room ids a request names: the one of the rooms created while the
\* clock stands, and one no room has.
AppRoomIds == {RoomId(0), RoomId(1)}

\* authenticateUser: req.user is the object the users Map of the process
\* holds under the token of the request; without it the answer is 401.
AppUser(p, token) ==
  IF token # NoToken /\ token \in DOMAIN users[p]
  THEN heap[p][users[p][token]] ELSE Undefined

\* A request to a route of the application, served by process p.
AppRequest(route, p, args, status) ==
  /\ UNCHANGED <<opts, redis, conn, auth, socketUser, socketRef, activeUsers,
                 typingUsers, rooms>>
  /\ UNCHANGED hookCalls
  /\ Observe(Server, [ev |-> route, conn |-> Server, proc |-> p,
                      args |-> args, status |-> status], <<>>)

\* POST /api/auth/login: a new user object is stored in the users Map under a
\* new token (an entry under the same token is replaced).  lag: the clock
\* units passing between the reads of Date.now() for the token and the id.
Login(p, email, password, lag) ==
  /\ steps < MaxEvents
  /\ now + lag <= MaxTime
  /\ now' = now + lag
  /\ UNCHANGED appRooms
  /\ IF email # Absent /\ password
     THEN /\ heap' = [heap EXCEPT ![p] =
                        Append(@, AccountUser(email, now, now + lag))]
          /\ users' = [users EXCEPT ![p] =
                         MapSet(@, Token(now), Len(heap[p]) + 1)]
          /\ AppRequest("app.login", p, [email |-> email], 200)
     ELSE /\ lag = 0
          /\ UNCHANGED <<heap, users>>
          /\ AppRequest("app.login", p, [email |-> email], 400)

\* POST /api/auth/logout: users.delete(req.user.token).
Logout(p, token) ==
  /\ steps < MaxEvents
  /\ UNCHANGED <<heap, appRooms, now>>
  /\ LET user == AppUser(p, token) IN
     IF user = Undefined
     THEN /\ UNCHANGED users
          /\ AppRequest("app.logout", p, [token |-> token], 401)
     ELSE /\ users' = [users EXCEPT ![p] = MapDelete(@, user.token)]
          /\ AppRequest("app.logout", p, [token |-> token], 200)

\* POST /api/rooms: a room with the requesting user as only member is stored
\* in the rooms Map.  lag: the clock units passing between the reads of
\* Date.now() for the id and for createdAt.
CreateRoom(p, token, name, lag) ==
  /\ steps < MaxEvents
  /\ UNCHANGED <<heap, users>>
  /\ LET user == AppUser(p, token)
         args == [token |-> token, name |-> name]
     IN
     IF user = Undefined \/ name = Absent
     THEN /\ lag = 0
          /\ UNCHANGED <<appRooms, now>>
          /\ AppRequest("app.createRoom", p, args,
                        IF user = Undefined THEN 401 ELSE 400)
     ELSE /\ now + lag <= MaxTime
          /\ now' = now + lag
          /\ appRooms' = [appRooms EXCEPT ![p] =
               MapSet(@, RoomId(now),
                      [id |-> RoomId(now), name |-> name, isPrivate |-> FALSE,
                       createdBy |-> user.id, createdAt |-> now + lag,
                       members |-> << user.id >>])]
          /\ AppRequest("app.createRoom", p, args, 200)

\* POST /api/rooms/:roomId/join: the requesting user is added to the members
\* of the room unless it is one already.
JoinRoom(p, token, roomId) ==
  /\ steps < MaxEvents
  /\ UNCHANGED <<heap, users, now>>
  /\ LET user == AppUser(p, token)
         args == [token |-> token, roomId |-> roomId]
     IN
     IF user = Undefined \/ roomId \notin DOMAIN appRooms[p]
     THEN /\ UNCHANGED appRooms
          /\ AppRequest("app.joinRoom", p, args,
                        IF user = Undefined THEN 401 ELSE 404)
     ELSE /\ appRooms' = [appRooms EXCEPT ![p][roomId].members =
               IF Includes(@, user.id) THEN @ ELSE Append(@, user.id)]
          /\ AppRequest("app.joinRoom", p, args, 200)

(***************************************************************************)
(* The passage of time.                                                    *)
(***************************************************************************)
\* Mutant of TimerCalls: an expiry timer retracts a pending typing:start.
TimerCalls_Expiry ==
  IF lastTyping = {} THEN <<>>
  ELSE LET p == CHOOSE q \in lastTyping : TRUE
       IN << Call("typing:stop", p[1], Sids \ {p[1]},
                  [userId |-> p[1], userName |-> DisplayName(p[1]),
                   room |-> p[2]]) >>

(***************************************************************************)
(* REST API (setupRestApiRoutes).                                          *)
(***************************************************************************)
\* Request bodies: complete, without event, without data.
RestBodies ==
  { [event |-> "notification", data |-> "payload"],
    [event |-> Absent, data |-> "payload"],
    [event |-> "notification", data |-> Absent] }

\* Bodies of the webhook route: the three notification types with their
\* target, one whose target is missing, and a type that is none of them.
WebhookBodies ==
  { [type |-> "broadcast", room |-> Absent, userId |-> Absent],
    [type |-> "room", room |-> "lobby", userId |-> Absent],
    [type |-> "room", room |-> Absent, userId |-> Absent],
    [type |-> "user", room |-> Absent, userId |-> "c1"],
    [type |-> "other", room |-> Absent, userId |-> Absent] }

\* No route of the server answers the request.
NoRoute == 0

\* Whether createChatServer of process p mounted the routes: it got past its
\* awaits, enableRestApi is set and setupRestApiRoutes found an Express app.
RestMounted(p) ==
  Installs(redis[p]) /\ opts.enableRestApi /\ opts.expressApp

\* authenticateApi: the request passes when API authentication is off or an
\* Authorization header is present.
RestAuthorized(bearer) == ~opts.restApiAuth \/ bearer

\* What precedes every route handler: nothing answers when the routes are
\* not mounted, 401 without the token, else the status of the handler.
Routed(p, bearer, status) ==
  IF ~RestMounted(p) THEN NoRoute
  ELSE IF ~RestAuthorized(bearer) THEN 401
  ELSE status

\* `if (!event || !data) return res.status(400)`.
Incomplete(body) == body.event = Absent \/ body.data = Absent

\* utils.getUser(socketId) of process p: activeUsers.get(socketId).
GetUser(p, socketId) == MapGet(activeUsers[p], socketId)

\* The status POST users/:userId/message answers with: 400 when event or
\* data is missing, 404 when utils.getUser finds no record, 200 after
\* utils.sendToUser.
RestStatus(p, userId, body, bearer) ==
  Routed(p, bearer, IF Incomplete(body) THEN 400
                 ELSE IF GetUser(p, userId) = Undefined THEN 404
                 ELSE 200)

\* A request to a route served by process p, answered with `status` after
\* the emit calls `out`.
Request(route, p, args, status, out) ==
  /\ steps < MaxEvents
  /\ UNCHANGED cvars
  /\ UNCHANGED hookCalls
  /\ Observe(Server,
       [ev |-> route, conn |-> Server, proc |-> p, args |-> args,
        status |-> status],
       IF status = 200 THEN out ELSE <<>>)

\* POST {prefix}/users/:userId/message
RestUserMessage(p, userId, body, bearer) ==
  Request("rest.userMessage", p,
          [userId |-> userId, body |-> body, bearer |-> bearer],
          RestStatus(p, userId, body, bearer),
          << Call(body.event, Server, NspTo(Sids, rooms, userId),
                  body.data) >>)

\* POST {prefix}/room/:roomName/message
RestRoomMessage(p, roomName, body, bearer) ==
  Request("rest.roomMessage", p,
          [roomName |-> roomName, body |-> body, bearer |-> bearer],
          Routed(p, bearer, IF Incomplete(body) THEN 400 ELSE 200),
          << Call(body.event, Server, NspTo(Sids, rooms, roomName),
                  body.data) >>)

\* POST {prefix}/broadcast
RestBroadcast(p, body, bearer) ==
  Request("rest.broadcast", p, [body |-> body, bearer |-> bearer],
          Routed(p, bearer, IF Incomplete(body) THEN 400 ELSE 200),
          << Call(body.event, Server, Apply(Sids, rooms, {}, {}),
                  body.data) >>)

\* The emit calls of POST {prefix}/webhooks/notification: a broadcast, or an
\* emit to the target room or user when the target names one.
WebhookCalls(body) ==
  LET data == [type |-> body.type, data |-> "payload", timestamp |-> now] IN
  IF body.type = "broadcast"
  THEN << Call("notification", Server, Apply(Sids, rooms, {}, {}), data) >>
  ELSE IF body.type = "room" /\ body.room # Absent
  THEN << Call("notification", Server, NspTo(Sids, rooms, body.room),
               data) >>
  ELSE IF body.type = "user" /\ body.userId # Absent
  THEN << Call("notification", Server, NspTo(Sids, rooms, body.userId),
               data) >>
  ELSE <<>>

\* POST {prefix}/webhooks/notification
RestWebhook(p, body, bearer) ==
  Request("rest.webhook", p, [body |-> body, bearer |-> bearer],
          Routed(p, bearer,
                 IF body.type \in {"broadcast", "room", "user"} THEN 200
                 ELSE 400),
          WebhookCalls(body))

\* What the server emits when time passes: nothing.  The option
\* typingTimeout is destructured with its default and never read again; no
\* timer is armed anywhere in the connection handler.
TimerCalls == <<>>

\* Date.now() advances while no event is handled.
Tick ==
  /\ steps < MaxEvents
  /\ now < MaxTime
  /\ now' = now + 1
  /\ UNCHANGED <<users, heap, appRooms, opts, redis, conn, auth, socketUser, socketRef, activeUsers, typingUsers, rooms>>
  /\ UNCHANGED hookCalls
  /\ Observe(Absent, [ev |-> "tick", conn |-> Absent], TimerCalls)

(***************************************************************************)
(* Specifications.                                                         *)
(***************************************************************************)
Texts == {"hi"}
Statuses == {"away", "invisible"}
RoomArgs == RoomNames \cup {NoRoom}

\* Presence: the events that read or write the registry, socket.user or the
\* rooms the lifecycle broadcasts are addressed with.  The events left out
\* (typing, read receipts, private messages, room:create) write none of
\* them.
NextPresence ==
  \/ \E c \in Conns, t \in PresentedEarly : Connect(c, t)
  \/ \E p \in Procs, e \in Emails : Login(p, e, TRUE, 0)
  \/ \E c \in Conns, u \in Profiles : OnUserJoin(c, u, 0)
  \/ \E c \in Conns, r \in RoomNames : OnJoin(c, r)
  \/ \E c \in Conns, r \in RoomNames : OnLeave(c, r)
  \/ \E c \in Conns, t \in Texts : OnMessage(c, NoRoom, t, <<0, 0>>)
  \/ \E c \in Conns, s \in Statuses : OnUserStatus(c, s)
  \/ \E c \in Conns, r \in Reasons : OnDisconnect(c, r)

SpecPresence == Init /\ [][NextPresence]_vars

\* Timestamps: the events that write connectedAt or lastSeen, while time
\* passes between them.
NextClock ==
  \/ \E c \in Conns, t \in Presented : Connect(c, t)
  \/ \E p \in Procs, e \in OneEmail, d \in Lags : Login(p, e, TRUE, d)
  \/ \E c \in Conns, u \in Profiles, d \in Lags : OnUserJoin(c, u, d)
  \/ \E c \in Conns, t \in Texts, d \in Lags \X Lags :
       OnMessage(c, NoRoom, t, d)
  \/ \E c \in Conns, s \in Statuses : OnUserStatus(c, s)
  \/ Tick

SpecClock == Init /\ [][NextClock]_vars

\* Routing: the events that change the connections or the room membership,
\* and the addressed events.  The delivery sets read nothing else.
NextRouting ==
  \/ \E c \in Conns, t \in PresentedEarly : Connect(c, t)
  \/ \E p \in Procs, e \in OneEmail : Login(p, e, TRUE, 0)
  \/ \E c \in Conns, r \in RoomNames : OnJoin(c, r)
  \/ \E c \in Conns, r \in RoomNames : OnLeave(c, r)
  \/ \E c \in Conns, r \in NamedRooms : OnRoomCreate(c, r, FALSE)
  \/ \E c \in Conns, r \in RoomArgs, t \in Texts : OnMessage(c, r, t, <<0, 0>>)
  \/ \E c \in Conns, to \in RoomNames, t \in Texts : OnMessagePrivate(c, to, t, 0)
  \/ \E c \in Conns, r \in Reasons : OnDisconnect(c, r)

SpecRouting == Init /\ [][NextRouting]_vars

\* Sender identity: the events that carry the sender in their payload, from
\* connections that did or did not send user:join, with or without a user
\* attached by the auth hook.
SenderRooms == NamedRooms \cup {NoRoom}

NextSender ==
  \/ \E c \in Conns, t \in PresentedEarly : Connect(c, t)
  \/ \E p \in Procs, e \in Emails : Login(p, e, TRUE, 0)
  \/ \E c \in Conns, u \in Profiles : OnUserJoin(c, u, 0)
  \/ \E c \in Conns, r \in NamedRooms : OnJoin(c, r)
  \/ \E c \in Conns, r \in SenderRooms, t \in Texts : OnMessage(c, r, t, <<0, 0>>)
  \/ \E c \in Conns, to \in Conns, t \in Texts : OnMessagePrivate(c, to, t, 0)
  \/ \E c \in Conns, r \in SenderRooms : OnTypingStart(c, r)
  \/ \E c \in Conns, r \in SenderRooms : OnTypingStop(c, r)
  \/ \E c \in Conns, r \in SenderRooms : OnMessageRead(c, "m1", r)

SpecSender == Init /\ [][NextSender]_vars

\* Typing indicators and read receipts, with the flags on or off: the events
\* of the two features and `message` (the room-or-global routing), the events
\* that change who is connected, registered or in a room, and the passage of
\* time.
NextTyping ==
  \/ \E c \in Conns : Connect(c, NoToken)
  \/ \E c \in Conns, u \in Profiles : OnUserJoin(c, u, 0)
  \/ \E c \in Conns, r \in RoomNames : OnJoin(c, r)
  \/ \E c \in Conns, r \in RoomNames : OnLeave(c, r)
  \/ \E c \in Conns, r \in SenderRooms : OnTypingStart(c, r)
  \/ \E c \in Conns, r \in SenderRooms : OnTypingStop(c, r)
  \/ \E c \in Conns, r \in SenderRooms : OnMessageRead(c, "m1", r)
  \/ \E c \in Conns, r \in SenderRooms, t \in Texts : OnMessage(c, r, t, <<0, 0>>)
  \/ \E c \in Conns, r \in Reasons : OnDisconnect(c, r)
  \/ Tick

SpecTyping == InitFlags /\ [][NextTyping]_vars

\* Startup: the connection handler with Redis reachable, and what a client
\* can do when it was not.
ClientEvents == {"user:join", "message"}

NextStartup ==
  \/ \E c \in Conns, t \in PresentedEarly : Connect(c, t)
  \/ \E p \in Procs, e \in OneEmail : Login(p, e, TRUE, 0)
  \/ \E p \in Procs, o \in RedisOutcomes : Settle(p, o)
  \/ \E c \in Conns : ConnectUnserved(c)
  \/ \E c \in Conns : CloseUnserved(c)
  \/ \E c \in Conns, e \in ClientEvents : Unhandled(c, e)
  \/ \E c \in Conns, u \in Profiles : OnUserJoin(c, u, 0)
  \/ \E c \in Conns, t \in Texts : OnMessage(c, NoRoom, t, <<0, 0>>)
  \/ \E c \in Conns, r \in Reasons : OnDisconnect(c, r)

SpecStartup == InitStartup /\ [][NextStartup]_vars

\* Ordering: packets arrive from the connections and are dispatched from
\* their queues.
NextOrder ==
  \/ \E c \in Conns, t \in PresentedEarly : Connect(c, t)
  \/ \E p \in Procs, e \in OneEmail : Login(p, e, TRUE, 0)
  \/ \E c \in Conns, e \in OrderEvents : Receive(c, e)
  \/ \E c \in Conns : Dispatch(c)

SpecOrder == InitOrder /\ [][NextOrder]_vars

\* The utility functions, called by the application while connections come,
\* go and change rooms.
UtilEvents == {"notification"}
UtilData == {"payload"}

NextUtils ==
  \/ \E c \in Conns, t \in PresentedEarly : Connect(c, t)
  \/ \E p \in Procs, e \in OneEmail : Login(p, e, TRUE, 0)
  \/ \E c \in Conns, r \in RoomNames : OnJoin(c, r)
  \/ \E c \in Conns, r \in RoomNames : OnLeave(c, r)
  \/ \E c \in Conns, r \in Reasons : OnDisconnect(c, r)
  \/ \E id \in RoomNames, e \in UtilEvents, d \in UtilData :
       UtilSendToUser(id, e, d)
  \/ \E r \in RoomNames, e \in UtilEvents, d \in UtilData :
       UtilSendToRoom(r, e, d)
  \/ \E e \in UtilEvents, d \in UtilData : UtilBroadcast(e, d)
  \/ \E p \in Procs : UtilGetRooms(p)
  \/ \E p \in Procs, r \in RoomNames : UtilGetUsersInRoom(p, r)

SpecUtils == Init /\ [][NextUtils]_vars

\* Rooms: the events that change the membership of a room, and everything
\* that is addressed to a room.
NextRooms ==
  \/ \E c \in Conns, t \in PresentedEarly : Connect(c, t)
  \/ \E p \in Procs, e \in OneEmail : Login(p, e, TRUE, 0)
  \/ \E c \in Conns, r \in RoomNames : OnJoin(c, r)
  \/ \E c \in Conns, r \in RoomNames : OnLeave(c, r)
  \/ \E c \in Conns, r \in NamedRooms : OnRoomCreate(c, r, FALSE)
  \/ \E c \in Conns, r \in RoomNames, t \in Texts : OnMessage(c, r, t, <<0, 0>>)
  \/ \E c \in Conns, r \in NamedRooms : OnTypingStart(c, r)
  \/ \E c \in Conns, r \in NamedRooms : OnTypingStop(c, r)
  \/ \E c \in Conns, r \in NamedRooms : OnMessageRead(c, "m1", r)
  \/ \E p \in Procs, n \in NamedRooms : CreateRoom(p, Token(0), n, 0)
  \/ \E r \in RoomNames, e \in UtilEvents, d \in UtilData :
       UtilSendToRoom(r, e, d)
  \/ \E c \in Conns, r \in Reasons : OnDisconnect(c, r)

SpecRooms == Init /\ [][NextRooms]_vars

\* The REST route to one user, while connections come, register, join rooms
\* named by connection ids and go.
NextRest ==
  \/ \E c \in Conns, t \in PresentedEarly : Connect(c, t)
  \/ \E p \in Procs, e \in OneEmail : Login(p, e, TRUE, 0)
  \/ \E c \in Conns, u \in Profiles : OnUserJoin(c, u, 0)
  \/ \E c \in Conns, r \in Conns : OnJoin(c, r)
  \/ \E c \in Conns, t \in Texts : OnMessage(c, NoRoom, t, <<0, 0>>)
  \/ \E c \in Conns, r \in Reasons : OnDisconnect(c, r)
  \/ \E p \in Procs, id \in Conns, b \in RestBodies, t \in BOOLEAN :
       RestUserMessage(p, id, b, t)

\* The server started with one of the REST configurations.
InitRest == Start(RestConfigs)

SpecRest == InitRest /\ [][NextRest]_vars

\* The other routes of the REST API that emit.
NextRoutes ==
  \/ \E c \in Conns, t \in PresentedEarly : Connect(c, t)
  \/ \E p \in Procs, e \in OneEmail : Login(p, e, TRUE, 0)
  \/ \E c \in Conns, r \in RoomNames : OnJoin(c, r)
  \/ \E c \in Conns, r \in Reasons : OnDisconnect(c, r)
  \/ \E p \in Procs, r \in RoomNames, b \in RestBodies, t \in BOOLEAN :
       RestRoomMessage(p, r, b, t)
  \/ \E p \in Procs, b \in RestBodies, t \in BOOLEAN : RestBroadcast(p, b, t)
  \/ \E p \in Procs, b \in WebhookBodies, t \in BOOLEAN : RestWebhook(p, b, t)

SpecRoutes == InitRest /\ [][NextRoutes]_vars

\* The application of the example: logins, logouts and its rooms, while the
\* sockets of its accounts connect, write through socket.user and go.
NextAccounts ==
  \/ \E c \in Conns, t \in PresentedEarly : Connect(c, t)
  \/ \E p \in Procs, b \in LoginBodies : Login(p, b.email, b.password, 0)
  \/ \E p \in Procs, t \in PresentedEarly : Logout(p, t)
  \/ \E p \in Procs, t \in PresentedEarly, n \in AppRoomNames :
       CreateRoom(p, t, n, 0)
  \/ \E p \in Procs, t \in PresentedEarly, r \in AppRoomIds :
       JoinRoom(p, t, r)
  \/ \E c \in Conns, s \in Statuses : OnUserStatus(c, s)
  \/ \E c \in Conns, r \in Reasons : OnDisconnect(c, r)

\* The example has started.
InitAccounts == Start({Example})

SpecAccounts == InitAccounts /\ [][NextAccounts]_vars

\* Every event of the connection handler.
Next ==
  \/ \E c \in Conns, t \in PresentedEarly : Connect(c, t)
  \/ \E p \in Procs, e \in OneEmail : Login(p, e, TRUE, 0)
  \/ \E c \in Conns, u \in Profiles : OnUserJoin(c, u, 0)
  \/ \E c \in Conns, r \in RoomNames : OnJoin(c, r)
  \/ \E c \in Conns, r \in RoomNames : OnLeave(c, r)
  \/ \E c \in Conns, r \in RoomArgs, t \in Texts : OnMessage(c, r, t, <<0, 0>>)
  \/ \E c \in Conns, r \in RoomArgs : OnTypingStart(c, r)
  \/ \E c \in Conns, r \in RoomArgs : OnTypingStop(c, r)
  \/ \E c \in Conns, r \in RoomArgs : OnMessageRead(c, "m1", r)
  \/ \E c \in Conns, st \in Statuses : OnUserStatus(c, st)
  \/ \E c \in Conns, to \in RoomNames, t \in Texts : OnMessagePrivate(c, to, t, 0)
  \/ \E c \in Conns, r \in NamedRooms : OnRoomCreate(c, r, FALSE)
  \/ \E c \in Conns, r \in Reasons : OnDisconnect(c, r)

Spec == Init /\ [][Next]_vars

(***************************************************************************)
(* Claims.                                                                 *)
(***************************************************************************)
\* Emit calls of the last step with the given event.
CallsOf(ev) == {i \in 1..Len(emitted) : emitted[i].ev = ev}

\* C1: in every reachable state the registry holds a record only under the
\* id of a connection that is currently connected and has sent user:join
\* (one Map per process, keyed by connection id, so at most one per id),
\* also when the auth hook attached a user object before any user:join.
C1_RegistryOnlyJoined ==
  \A p \in Procs : \A k \in DOMAIN activeUsers[p] :
    /\ ProcOf(k) = p
    /\ conn[k] = "connected"
    /\ joins[k] >= 1

\* C2: when a connection that sent user:join (once) disconnects, the
\* registry size is back at its value before the join (other connections'
\* own additions and removals aside), and every connection that stayed
\* connected throughout has seen exactly one user:joined and one user:left
\* for it.
C2_JoinThenDisconnect ==
  \A c \in Conns :
    (handled.ev = "disconnect" /\ handled.conn = c /\ joins[c] = 1) =>
      /\ RegistrySize(activeUsers) = expectedSize[c]
      /\ \A r \in stayed[c] : seen[r][c] = [joined |-> 1, left |-> 1]

\* C3: a message with a non-empty room is delivered, in one emit, to exactly
\* the connected members of that room; the sender gets it iff it is a member.
C3_RoomMessageToMembers ==
  (handled.ev = "message" /\ handled.room # NoRoom) =>
    /\ Len(emitted) = 1
    /\ emitted[1].ev = "message"
    /\ emitted[1].data.room = handled.room
    /\ emitted[1].to = {c \in Conns : /\ conn[c] = "connected"
                                      /\ c \in rooms[handled.room]}
    /\ (handled.conn \in emitted[1].to) <=> (handled.conn \in rooms[handled.room])

\* C3 witness: a room message reached its sender, a member, and not a
\* connected connection outside the room.
C3_Witness ==
  /\ handled.ev = "message"
  /\ handled.room = "lobby"
  /\ handled.conn \in emitted[1].to
  /\ \E c \in Conns : conn[c] = "connected" /\ c \notin emitted[1].to

\* C4: a message without room is delivered to every connected connection
\* other than the sender, and never to the sender.
C4_GlobalMessageToOthers ==
  (handled.ev = "message" /\ handled.room = NoRoom) =>
    /\ Len(emitted) = 1
    /\ emitted[1].to = {c \in Conns : conn[c] = "connected"} \ {handled.conn}

\* C5: for a message:private from s with target t, s receives exactly one
\* echo, the connection with id t receives it iff it is connected, and no
\* other connection receives it.
C5_PrivateDelivery ==
  handled.ev = "message:private" =>
    \A r \in Conns :
      Deliveries(emitted, "message:private", handled.conn, r) =
        (IF r = handled.conn THEN 1
         ELSE IF r = handled.to /\ conn[r] = "connected" THEN 1 ELSE 0)

\* C6: the users:list reply to a user:join is sent to the joiner alone and
\* contains the record just registered for it.
C6_ListContainsSelf ==
  handled.ev = "user:join" =>
    LET c == handled.conn IN
    /\ c \in DOMAIN activeUsers[ProcOf(c)]
    /\ activeUsers[ProcOf(c)][c]
         = NewUser(c, handled.userData, now - handled.lag, now)
    /\ CallsOf("users:list") # {}
    /\ \A i \in CallsOf("users:list") :
         /\ emitted[i].to = {c}
         /\ activeUsers[ProcOf(c)][c] \in emitted[i].data.users

\* C6 witness: a first user:join answered with a list of two records.
C6_Witness ==
  /\ handled.ev = "user:join"
  /\ joins[handled.conn] = 1
  /\ \E i \in CallsOf("users:list") : Cardinality(emitted[i].data.users) = 2

\* C7: the first user:join of a connection produces exactly one user:joined
\* broadcast, delivered to each other connection and never to the joiner,
\* and no event other than user:join produces a user:joined.  (What a
\* repeated user:join does is left open here.)
C7_OneJoinedPerJoin ==
  LET c == handled.conn IN
  /\ (handled.ev = "user:join" /\ joins[c] = 1) =>
       /\ Calls(emitted, "user:joined", c) = 1
       /\ \A r \in Conns :
            Deliveries(emitted, "user:joined", c, r) =
              (IF r # c /\ conn[r] = "connected" THEN 1 ELSE 0)
  /\ handled.ev # "user:join" => CallsOf("user:joined") = {}

\* What the disconnect handler itself emitted in the last step: the emits of
\* the step without the user:status_changed of the application's
\* onDisconnect hook (the handler emits user:left only).
CoreEmitted ==
  LET NotOfHook(e) == e.ev # "user:status_changed"
  IN SelectSeq(emitted, NotOfHook)

\* C8: on disconnect of c a user:left with c's last-known name and the
\* reason goes to all other connections iff a registry record existed;
\* without a record nothing is emitted; c never receives it.
C8_UserLeftOnDisconnect ==
  handled.ev = "disconnect" =>
    LET c == handled.conn
        core == CoreEmitted
    IN
    IF handled.hadRecord
    THEN /\ Len(core) = 1
         /\ core[1].ev = "user:left"
         /\ core[1].to = {r \in Conns : conn[r] = "connected"} \ {c}
         /\ core[1].data = [userId |-> c, userName |-> socketUser[c].name,
                            reason |-> handled.reason]
    ELSE core = <<>>

\* C9: the users:list reply contains the record of every connection that has
\* completed user:join and has not disconnected, on whichever process.
C9_ListHasEveryActiveUser ==
  handled.ev = "user:join" =>
    \A i \in CallsOf("users:list") :
      \A d \in Conns :
        (conn[d] = "connected" /\ joins[d] >= 1) =>
          MapGet(activeUsers[ProcOf(d)], d) \in emitted[i].data.users

\* C10: a connection the auth hook denied never becomes connected: no event
\* of it is dispatched, no record is created for it, nothing is emitted on
\* its behalf and the connect and disconnect hooks are not run for it.
C10_DeniedNeverActive ==
  \A c \in Conns :
    auth[c] = "deny" =>
      /\ conn[c] = "refused"
      /\ \A p \in Procs : c \notin DOMAIN activeUsers[p]
      /\ socketUser[c] = Undefined
      /\ joins[c] = 0
      /\ hookCalls[c] = <<>>
      /\ \A r \in RoomNames : c \notin rooms[r]
      /\ handled.conn = c => handled.ev = "connect"
      /\ \A i \in 1..Len(emitted) : emitted[i].from # c /\ c \notin emitted[i].to

\* C10 witness: a connection was denied and another one has joined since.
C10_Witness ==
  /\ \E c \in Conns : auth[c] = "deny"
  /\ handled.ev = "user:join"
  /\ Len(emitted) = 2

(***************************************************************************)
(* Sender identity (C11).                                                  *)
(***************************************************************************)
SenderEvents ==
  {"message", "message:private", "typing:start", "typing:stop", "message:read"}

\* The emit calls of the last step name the sender `who` (messages) or the
\* connection id with the display name `name` (typing, read receipts).
IdentifiedAs(c, who, name) ==
  \A i \in 1..Len(emitted) :
    IF handled.ev = "message" THEN emitted[i].data.user = who
    ELSE IF handled.ev = "message:private" THEN emitted[i].data.from = who
    ELSE emitted[i].data.userId = c /\ emitted[i].data.userName = name

\* The emit calls of the last step went where the event goes for a sender
\* that has joined: the receivers are given by the connections and the room
\* memberships alone, and neither by socket.user nor by the registry.  A
\* message or read receipt goes to the connected members of its room, a
\* typing event to those of them that are not in the room named by the
\* sender's id, an event without room to every connected connection outside
\* that room, and a private message to the connected members of the room
\* named by its addressee outside that room, with a copy to the sender.
RoutedAsUsual(c) ==
  LET connected == {d \in Conns : conn[d] = "connected"}
      inRoom(room) == {d \in connected : room \in DOMAIN rooms /\ d \in rooms[room]}
      others == connected \ inRoom(c)
  IN
  IF handled.ev = "message:private"
  THEN /\ Len(emitted) = 2
       /\ emitted[1].ev = "message:private" /\ emitted[2].ev = "message:private"
       /\ emitted[1].to = inRoom(handled.to) \cap others
       /\ emitted[2].to = {c}
  ELSE /\ Len(emitted) = 1
       /\ emitted[1].ev = handled.ev
       /\ emitted[1].to =
            IF handled.room = NoRoom THEN others
            ELSE IF handled.ev \in {"message", "message:read"}
                 THEN inRoom(handled.room)
                 ELSE inRoom(handled.room) \cap others

\* C11 as stated: a message, private message, typing or read-receipt event
\* from a connection that never sent user:join is routed as usual and names
\* the sender by the placeholder whose id and name are the connection id.
C11_PlaceholderWhenNeverJoined ==
  (handled.ev \in SenderEvents /\ joins[handled.conn] = 0) =>
    LET c == handled.conn IN
    /\ RoutedAsUsual(c)
    /\ IdentifiedAs(c, [id |-> c, name |-> c], c)

\* C11, amended: the placeholder is used when socket.user is unset, that is
\* when the connection never sent user:join and the auth hook attached no
\* user; a connection that never sent user:join but carries the hook's user
\* is named by that user in messages and private messages, and in typing and
\* read-receipt payloads by its connection id with the user's name, or with
\* the connection id when that name is absent or empty.  Either way the
\* event is routed as usual.
C11_PlaceholderWhenNoUser ==
  (handled.ev \in SenderEvents /\ joins[handled.conn] = 0) =>
    LET c == handled.conn IN
    /\ RoutedAsUsual(c)
    /\ IF socketUser[c] = Undefined
       THEN IdentifiedAs(c, [id |-> c, name |-> c], c)
       ELSE /\ auth[c] = "attach"
            /\ IsAccount(socketRef, c)
            /\ LET account == heap[ProcOf(c)][socketRef[c]] IN
               \A i \in 1..Len(emitted) :
                 /\ handled.ev = "message" =>
                      /\ emitted[i].data.user.id = account.id
                      /\ emitted[i].data.user.name = account.name
                 /\ handled.ev = "message:private" =>
                      /\ emitted[i].data.from.id = account.id
                      /\ emitted[i].data.from.name = account.name
                 /\ handled.ev \notin {"message", "message:private"} =>
                      /\ emitted[i].data.userId = c
                      /\ emitted[i].data.userName =
                           IF account.name \in {Absent, ""} THEN c
                           ELSE account.name

\* A message of a connection without socket.user reached another connection
\* that has sent user:join.
C11_Witness ==
  /\ handled.ev = "message"
  /\ socketUser[handled.conn] = Undefined
  /\ \E r \in emitted[1].to : r # handled.conn /\ joins[r] > 0

(***************************************************************************)
(* User status (C12, C13).                                                 *)
(***************************************************************************)
\* C12: a user:status event from a connection without a registry record
\* changes nothing and emits nothing; with a record, the record's status
\* becomes the given value and user:status_changed goes to every other
\* connection and not to the sender.
C12_StatusNeedsRecord ==
  handled.ev = "user:status" =>
    LET c == handled.conn
        reg == activeUsers[ProcOf(c)]
    IN IF handled.hadRecord
       THEN /\ c \in DOMAIN reg
            /\ reg[c].status = handled.status
            /\ Len(emitted) = 1
            /\ emitted[1].ev = "user:status_changed"
            /\ emitted[1].to = Sockets \ {c}
       ELSE /\ c \notin DOMAIN reg
            /\ emitted = <<>>

\* The registry record of connection c in registry state au, lastSeen aside.
RecordSansLastSeen(au, c) ==
  LET rec == MapGet(au[ProcOf(c)], c) IN
  IF rec = Undefined THEN rec ELSE [rec EXCEPT !.lastSeen = NoTime]

\* C13: a user:status event that repeats the status of the event the same
\* joined connection sent just before is broadcast again, to every other
\* connection, and leaves the registry record as the first one made it,
\* lastSeen aside.
C13_StatusNotCoalesced ==
  [][ ( /\ steps' = steps + 1
        /\ handled.ev = "user:status"
        /\ handled'.ev = "user:status"
        /\ handled'.conn = handled.conn
        /\ handled'.status = handled.status
        /\ joins[handled.conn] > 0 )
      => LET c == handled.conn IN
         /\ Len(emitted') = 1
         /\ emitted'[1].ev = "user:status_changed"
         /\ emitted'[1].to = Sockets \ {c}
         /\ emitted'[1].data.status = handled.status
         /\ RecordSansLastSeen(activeUsers', c) = RecordSansLastSeen(activeUsers, c)
    ]_vars

(***************************************************************************)
(* Typing indicators and read receipts (C14 .. C20).                       *)
(***************************************************************************)
TypingEvents == {"typing:start", "typing:stop"}

\* The step handled an event of a feature that is switched off.
SwitchedOff(event) ==
  \/ event.ev \in TypingEvents /\ ~opts.enableTyping
  \/ event.ev = "message:read" /\ ~opts.enableReadReceipts

\* C14: with typing indicators disabled a typing:start or typing:stop event
\* emits nothing and changes no state, and so does message:read with read
\* receipts disabled; an event of a feature that is enabled is emitted as
\* usual, whatever the other flag says.
C14_DisabledFeaturesSilent ==
  [][ (steps' = steps + 1 /\ handled'.ev \in TypingEvents \cup {"message:read"})
      => IF SwitchedOff(handled')
         THEN /\ emitted' = <<>>
              /\ UNCHANGED cvars
              /\ UNCHANGED hookCalls
         ELSE /\ Len(emitted') = 1
              /\ emitted'[1].ev = handled'.ev
              /\ emitted'[1].from = handled'.conn
              /\ UNCHANGED cvars
    ]_vars

\* A typing:start arrived while typing indicators are disabled and another
\* connection was there to receive it: nothing was emitted.
C14_Witness ==
  /\ ~opts.enableTyping
  /\ opts.enableReadReceipts
  /\ handled.ev = "typing:start"
  /\ Cardinality(Sockets) >= 2
  /\ emitted = <<>>

RoomEvents == {"message", "typing:start", "typing:stop", "message:read"}

\* C15: a message, typing:start, typing:stop or message:read with a room is
\* delivered through the room target only, so a connection outside the room
\* never receives it; the global broadcast is used only without a room.
C15_RoomOrGlobal ==
  (handled.ev \in RoomEvents /\ ~SwitchedOff(handled)) =>
    LET c == handled.conn IN
    /\ Len(emitted) = 1
    /\ IF handled.room # NoRoom
       THEN /\ emitted[1].to \subseteq Members(rooms, handled.room)
            /\ emitted[1].to \in { NspTo(Sockets, rooms, handled.room),
                                   SocketTo(Sockets, rooms, c, handled.room) }
       ELSE emitted[1].to = SocketBroadcast(Sockets, rooms, c)

\* A room-addressed typing:start reached a member of the room while another
\* connection, connected but outside the room, got nothing.
C15_Witness ==
  /\ handled.ev = "typing:start"
  /\ handled.room \in NamedRooms
  /\ emitted # <<>>
  /\ emitted[1].to # {}
  /\ \E d \in Sockets : d \notin rooms[handled.room] /\ d \notin emitted[1].to

\* C16: a message:read with a room is delivered to every member of the room,
\* the acknowledging connection included; one without a room is delivered to
\* every connection except the acknowledging one.
C16_ReadReceiptDelivery ==
  (handled.ev = "message:read" /\ opts.enableReadReceipts) =>
    LET c == handled.conn IN
    /\ Len(emitted) = 1
    /\ emitted[1].to = IF handled.room # NoRoom
                       THEN Sockets \cap Members(rooms, handled.room)
                       ELSE Sockets \ {c}

\* C17: typing:start and typing:stop never reach their sender: with a room
\* they reach exactly the other members of the room, without one exactly
\* all other connected connections.
C17_TypingNotToSender ==
  (handled.ev \in TypingEvents /\ opts.enableTyping) =>
    LET c == handled.conn IN
    /\ Len(emitted) = 1
    /\ emitted[1].to = IF handled.room # NoRoom
                       THEN (Sockets \cap Members(rooms, handled.room)) \ {c}
                       ELSE Sockets \ {c}

\* The Typing Tracker (the Map typingUsers of c's process) holds an entry of
\* connection c.
Tracked(c) == c \in typingUsers[ProcOf(c)]

\* C18: the Typing Tracker holds an entry for a connection and a room
\* exactly when the connection is connected and its latest typing event for
\* the room was typing:start.
C18_TrackerFollowsTyping ==
  opts.enableTyping =>
    \A c \in Conns :
      Tracked(c) <=> (conn[c] = "connected" /\ \E p \in lastTyping : p[1] = c)

\* The disconnect handler deletes the key of its socket from typingUsers
\* outside the test for a registry record (TypingCleared in OnDisconnect).
\* No handler ever stores a key in that Map (C18), so it is empty in every
\* reachable state, before and after every disconnect: what the deletion
\* does to an entry cannot be observed, and no formula is stated for it.

\* C20: a typing:stop is emitted only by the step that handles a typing:stop
\* event, on behalf of the connection that sent it: neither the passage of
\* time nor the disconnect of the typing connection emits one.
C20_StopOnlyOnRequest ==
  \A i \in 1..Len(emitted) :
    emitted[i].ev = "typing:stop" =>
      /\ handled.ev = "typing:stop"
      /\ emitted[i].from = handled.conn
      /\ emitted[i].data.userId = handled.conn

\* A connection sent typing:start to a receiver, time passed, and it was
\* disconnected without having sent typing:stop: no typing:stop went out.
C20_Witness ==
  /\ handled.ev = "disconnect"
  /\ opts.enableTyping
  /\ now > 0
  /\ \E p \in lastTyping : p[1] = handled.conn
  /\ Sockets # {}
  /\ CallsOf("typing:stop") = {}

(***************************************************************************)
(* Rooms (C21, C22).                                                       *)
(***************************************************************************)
\* C21: a join of room r by c makes c a member of r, sends room:joined to c
\* and user:joined_room, with c's id and display name, to exactly the other
\* members of r; a leave removes c from r, sends room:left to c and
\* user:left_room to exactly the remaining members of r.
C21_JoinLeaveNotifyMembers ==
  handled.ev \in {"join", "leave"} =>
    LET c == handled.conn
        r == handled.room
        others == (Sockets \cap Members(rooms, r)) \ {c}
    IN /\ (c \in Members(rooms, r)) <=> (handled.ev = "join")
       /\ Len(emitted) = 2
       /\ emitted[1].ev = (IF handled.ev = "join" THEN "room:joined"
                           ELSE "room:left")
       /\ emitted[1].to = {c}
       /\ emitted[2].ev = (IF handled.ev = "join" THEN "user:joined_room"
                           ELSE "user:left_room")
       /\ emitted[2].data.userId = c
       /\ emitted[2].data.userName = DisplayName(c)
       /\ emitted[2].to = others

\* C22: a room:create by c makes c a member of the named room and delivers
\* exactly one room:created descriptor, created by c, to c and to every
\* other connected connection.
C22_RoomCreatedToAll ==
  handled.ev = "room:create" =>
    LET c == handled.conn IN
    /\ c \in Members(rooms, handled.room)
    /\ \A i \in 1..Len(emitted) :
         emitted[i].ev = "room:created" /\ emitted[i].data.createdBy = c
    /\ \A d \in Conns :
         Deliveries(emitted, "room:created", c, d) =
           (IF d \in Sockets THEN 1 ELSE 0)

(***************************************************************************)
(* Lifecycle (C23, C24).                                                   *)
(***************************************************************************)
\* C23: once connection c is disconnected it stays so: no later step is
\* handled or emits on behalf of c, and neither the registry nor the Typing
\* Tracker of any process holds an entry of c again.
C23_TerminatedIsTerminal ==
  [][ \A c \in Conns :
        conn[c] = "closed" =>
          /\ conn'[c] = "closed"
          /\ \A p \in Procs : /\ c \notin DOMAIN activeUsers'[p]
                              /\ c \notin typingUsers'[p]
          /\ steps' = steps + 1 =>
               /\ handled'.conn # c
               /\ \A i \in 1..Len(emitted') : emitted'[i].from # c
    ]_vars

\* A connection that had been registered is disconnected, and another
\* connection has registered since.
C23_Witness ==
  \E c \in Conns :
    /\ conn[c] = "closed"
    /\ joins[c] > 0
    /\ handled.ev = "user:join"
    /\ handled.conn # c
    /\ \A p \in Procs : c \notin DOMAIN activeUsers[p]

\* The hook runs appended to connection c's log by the step.
HooksRun(c) == SubSeq(hookCalls'[c], Len(hookCalls[c]) + 1, Len(hookCalls'[c]))

\* The disconnect step ran the disconnect hook once for connection c, after
\* the registry removal, the typing cleanup and the user:left broadcast: the
\* hook found them done, and its own broadcast is the last emit of the step.
DisconnectHookLast(c) ==
  /\ emitted' # <<>>
  /\ emitted'[Len(emitted')].ev = "user:status_changed"
  /\ emitted'[Len(emitted')].data.status = "offline"
  /\ HooksRun(c) = << HookCall("onDisconnect",
                        [registered |-> FALSE, tracked |-> FALSE,
                         emits |-> Len(emitted') - 1]) >>

\* C24 as stated: the step that makes a connection ACTIVE (its first
\* user:join) and the step that makes it TERMINATED (its disconnect) each run
\* the configured extension hook exactly once, after the core's registry
\* update, typing cleanup and broadcasts of that step.
C24_HookOnEachTransition ==
  [][ steps' = steps + 1 =>
        LET c == handled'.conn IN
        /\ (handled'.ev = "user:join" /\ joins[c] = 0 /\ opts.onConnect) =>
             /\ Len(HooksRun(c)) = 1
             /\ HooksRun(c)[1].done.registered
             /\ HooksRun(c)[1].done.emits = Len(emitted')
        /\ (handled'.ev = "disconnect" /\ opts.onDisconnect) =>
             DisconnectHookLast(c)
    ]_vars

\* C24, amended: the connect hook runs exactly once per admitted connection,
\* in the connection step, before any event of the connection is handled
\* (so before its registration); the disconnect hook runs exactly once, in
\* the disconnect step, after the core's registry removal, typing cleanup
\* and broadcast; no other step, user:join included, runs a hook.
C24_HooksAtConnectAndDisconnect ==
  [][ steps' = steps + 1 =>
        \A c \in Conns :
          /\ SubSeq(hookCalls'[c], 1, Len(hookCalls[c])) = hookCalls[c]
          /\ IF handled'.conn = c /\ handled'.ev = "connect"
                /\ conn'[c] = "connected" /\ opts.onConnect
             THEN HooksRun(c) = << HookCall("onConnect",
                                     [registered |-> FALSE, tracked |-> FALSE,
                                      emits |-> 0]) >>
             ELSE IF handled'.conn = c /\ handled'.ev = "disconnect"
                     /\ opts.onDisconnect
             THEN DisconnectHookLast(c)
             ELSE HooksRun(c) = <<>>
    ]_vars

\* A registered connection was disconnected with both hooks configured: its
\* log holds the connect hook and then the disconnect hook.
C24_Witness ==
  /\ handled.ev = "disconnect"
  /\ handled.hadRecord
  /\ Len(emitted) = 2
  /\ emitted[1].ev = "user:left"
  /\ emitted[2].ev = "user:status_changed"
  /\ Len(hookCalls[handled.conn]) = 2
  /\ hookCalls[handled.conn][1].hook = "onConnect"
  /\ hookCalls[handled.conn][2].hook = "onDisconnect"

(***************************************************************************)
(* Registry records (C29, C30).                                            *)
(***************************************************************************)
\* C29: the id field of the registry record of a connection that sent
\* user:join is the connection id it is stored under, whatever the payload
\* of the user:join carries.
C29_RecordIdIsConnectionId ==
  \A c \in Conns :
    (joins[c] > 0 /\ c \in DOMAIN activeUsers[ProcOf(c)]) =>
      activeUsers[ProcOf(c)][c].id = c

\* C30: after a user:join the registered record and the user:joined and
\* users:list payloads carry a name and an email, derived from the
\* connection id when the payload of the user:join has none.
C30_NameAndEmailDefaulted ==
  handled.ev = "user:join" =>
    LET c == handled.conn
        rec == activeUsers[ProcOf(c)][c]
    IN /\ rec.name # Absent
       /\ rec.email # Absent
       /\ \A i \in CallsOf("user:joined") :
            /\ emitted[i].data.name # Absent
            /\ emitted[i].data.email # Absent
       /\ \A i \in CallsOf("users:list") :
            \A u \in emitted[i].data.users :
              u.id = rec.id => (u.name # Absent /\ u.email # Absent)

(***************************************************************************)
(* Utility functions (C27, C28).                                           *)
(***************************************************************************)
\* C27: utils.sendToUser(id) is delivered to exactly the connection whose id
\* is id when it is connected and to nobody otherwise; utils.sendToRoom to
\* exactly the current members of the room; utils.broadcast to every
\* connected connection.
C27_UtilsDelivery ==
  /\ handled.ev = "utils.sendToUser" =>
       /\ Len(emitted) = 1
       /\ emitted[1].to = {handled.to} \cap Sockets
  /\ handled.ev = "utils.sendToRoom" =>
       /\ Len(emitted) = 1
       /\ emitted[1].to = Sockets \cap Members(rooms, handled.room)
  /\ handled.ev = "utils.broadcast" =>
       /\ Len(emitted) = 1
       /\ emitted[1].to = Sockets

\* C28: utils.getUsersInRoom(r) is the set of connections currently joined
\* to r, empty for a room without members or an unknown room.
C28_UsersInRoomAreMembers ==
  handled.ev = "utils.getUsersInRoom" =>
    handled.result = Sockets \cap Members(rooms, handled.room)

(***************************************************************************)
(* Startup (C26).                                                          *)
(***************************************************************************)
\* The connections attached to process p.
ConnsOf(p) == {c \in Conns : ProcOf(c) = p}

\* C26: when the Redis connection of a process fails at startup the process
\* installs no connection handler: none of its connections gets handlers, the
\* auth hook or an extension hook, no inbound event of them is handled,
\* nothing is emitted for them or delivered to them, and no registry record or
\* typing entry is ever created in the process.
C26_FailedStartupServesNothing ==
  \A p \in Procs :
    redis[p] = "error" =>
      /\ \A c \in ConnsOf(p) :
           /\ conn[c] \in {"idle", "unbound", "closed"}
           /\ auth[c] = "none"
           /\ socketUser[c] = Undefined
           /\ joins[c] = 0
           /\ hookCalls[c] = <<>>
           /\ handled.conn = c => handled.ev \in {"connect", "dropped", "close"}
           /\ \A i \in 1..Len(emitted) :
                emitted[i].from # c /\ c \notin emitted[i].to
      /\ activeUsers[p] = EmptyMap
      /\ typingUsers[p] = {}

\* After the startup of their process failed, and while the other process
\* started, two clients got through to the transport and one of them sent
\* user:join: the event was dropped.
C26_Witness ==
  /\ redis["p1"] = "error"
  /\ redis["p2"] = "ready"
  /\ Cardinality({c \in ConnsOf("p1") : conn[c] = "unbound"}) >= 2
  /\ handled.ev = "dropped"
  /\ handled.name = "user:join"

(***************************************************************************)
(* Ordering.                                                               *)
(***************************************************************************)
\* SpecOrder follows the packets of a connection from arrival through the
\* queue of its socket to the handlers, and their emits to the receivers.
\* The handlers are synchronous functions, so a handler run is one step; the
\* order of dispatch and of the packets on the wire is the order Dequeue and
\* Logged give them, which is the socket's and the transport's and not the
\* handlers': an order property of the log would follow from those two
\* definitions alone, and none is stated.

(***************************************************************************)
(* Record fields (C31, C32).                                               *)
(***************************************************************************)
\* The presence states of the type declaration.
PresenceStates == {"online", "away", "busy", "offline"}

\* C31: the status of every registry record is absent or one of online, away,
\* busy, offline, whatever the user:join and user:status payloads were.
C31_StatusInEnum ==
  \A p \in Procs : \A k \in DOMAIN activeUsers[p] :
    activeUsers[p][k].status \in PresenceStates \cup {Absent}

\* The registry record of connection c, or Undefined.
RecordOf(au, c) == MapGet(au[ProcOf(c)], c)

\* C32: every registry record has connectedAt <= lastSeen; neither value of a
\* record decreases while its connection lives, whatever timestamps a repeated
\* user:join payload carries; and a message or user:status event of a
\* connection with a record sets its lastSeen to the current time.
C32_Timestamps ==
  /\ [](\A c \in Conns :
          RecordOf(activeUsers, c) # Undefined =>
            /\ RecordOf(activeUsers, c).connectedAt # NoTime
            /\ RecordOf(activeUsers, c).lastSeen # NoTime
            /\ RecordOf(activeUsers, c).connectedAt
                 <= RecordOf(activeUsers, c).lastSeen)
  /\ [][\A c \in Conns :
          /\ (RecordOf(activeUsers, c) # Undefined
              /\ RecordOf(activeUsers', c) # Undefined) =>
               /\ RecordOf(activeUsers', c).connectedAt
                    >= RecordOf(activeUsers, c).connectedAt
               /\ RecordOf(activeUsers', c).lastSeen
                    >= RecordOf(activeUsers, c).lastSeen
          /\ (/\ steps' = steps + 1
              /\ handled'.conn = c
              /\ handled'.ev \in {"message", "user:status"}
              /\ RecordOf(activeUsers', c) # Undefined) =>
               RecordOf(activeUsers', c).lastSeen = now']_vars

(***************************************************************************)
(* Registration (C33).                                                     *)
(***************************************************************************)
\* C33: registration is an overwrite keyed by the connection id: after every
\* user:join of connection c the registry holds exactly one record for c,
\* built from the payload of that join, and a user:join that is not the first
\* one of c leaves the keys and the size of the registry as they were.
C33_JoinOverwrites ==
  [][\A c \in Conns :
       (steps' = steps + 1 /\ handled'.ev = "user:join" /\ handled'.conn = c) =>
         /\ \A p \in Procs : c \in DOMAIN activeUsers'[p] <=> p = ProcOf(c)
         /\ LET rec == activeUsers'[ProcOf(c)][c]
                u == handled'.userData
            IN /\ rec.id = (IF u.id # Absent THEN u.id ELSE c)
               /\ rec.name = u.name
               /\ rec.email = u.email
               /\ rec.status = u.status
               /\ rec.token = Absent
               /\ rec.connectedAt = now
               /\ rec.lastSeen = now'
         /\ \A p \in Procs : \A k \in DOMAIN activeUsers[p] \ {c} :
              k \in DOMAIN activeUsers'[p] /\ activeUsers'[p][k] = activeUsers[p][k]
         /\ joins[c] >= 1 =>
              /\ RegistrySize(activeUsers') = RegistrySize(activeUsers)
              /\ \A p \in Procs : DOMAIN activeUsers'[p] = DOMAIN activeUsers[p]]_vars

\* A connection has just joined for the second time, with a payload that
\* names another user than the record it replaced would, while a second
\* connection is registered: the registry still holds two records.
C33_Witness ==
  /\ handled.ev = "user:join"
  /\ joins[handled.conn] >= 2
  /\ handled.userData.name = "bob"
  /\ RecordOf(activeUsers, handled.conn).name = "bob"
  /\ RegistrySize(activeUsers) = 2

(***************************************************************************)
(* Frame of the registry (C34).                                            *)
(***************************************************************************)
\* The events that are claimed never to write the presence registry.
FrameEvents ==
  {"message:private", "typing:start", "typing:stop", "message:read",
   "join", "leave", "room:create"}

\* C34: message:private, typing:start, typing:stop, message:read, join, leave
\* and room:create leave the presence registry unchanged, and so does a
\* message event from a connection that has no record.
C34_RegistryFrame ==
  [][\A c \in Conns :
       (/\ steps' = steps + 1
        /\ handled'.conn = c
        /\ \/ handled'.ev \in FrameEvents
           \/ /\ handled'.ev = "message"
              /\ RecordOf(activeUsers, c) = Undefined) =>
         activeUsers' = activeUsers]_vars

(***************************************************************************)
(* Presence between two connections of one process (C35).                  *)
(***************************************************************************)
\* C35: of two connections attached to the same process that have both sent
\* user:join and are both still connected, each one was sent a users:list
\* containing the other's record or was delivered the other's user:joined
\* after its own join.
C35_NoMissedPresence ==
  \A a, b \in Conns :
    (/\ a # b
     /\ ProcOf(a) = ProcOf(b)
     /\ conn[a] = "connected" /\ conn[b] = "connected"
     /\ joins[a] > 0 /\ joins[b] > 0) =>
      b \in known[a]

(***************************************************************************)
(* Global broadcasts and connections that never joined (C36).              *)
(***************************************************************************)
\* The events a handler broadcasts without a room.
GlobalEvents ==
  {"user:joined", "user:left", "message", "typing:start", "typing:stop",
   "message:read", "user:status_changed", "room:created"}

\* The last step broadcast without a room: a lifecycle or status event, or a
\* message, typing or read event whose payload named no room.
BroadcastStep ==
  \/ handled.ev \in {"user:join", "disconnect", "user:status", "room:create"}
  \/ /\ handled.ev \in {"message", "typing:start", "typing:stop",
                        "message:read"}
     /\ handled.room = NoRoom

\* C36: a global broadcast is delivered to every other connected connection,
\* whether or not that connection has sent user:join.
C36_GlobalReachesAll ==
  BroadcastStep =>
    \A i \in 1..Len(emitted) :
      (/\ emitted[i].ev \in GlobalEvents
       /\ handled.ev = "room:create" => i = 2) =>
        \A d \in Sockets \ {handled.conn} : d \in emitted[i].to

(***************************************************************************)
(* Room membership and room-addressed delivery (C37).                      *)
(***************************************************************************)
\* The events whose emission is addressed to the room of their payload.
RoomAddressed ==
  {"message", "typing:start", "typing:stop", "message:read",
   "utils.sendToRoom"}

\* C37: a leave event takes its connection out of the room and a disconnect
\* takes it out of every room; a join or room:create event puts its
\* connection into the room; nothing else changes who is in a room, except
\* that a connecting socket enters the room named by its id and the rooms
\* the application's connect hook joins it to; every
\* room-addressed message, typing, read-receipt or sendToRoom emission is
\* delivered to members of the room only, and a room-addressed message is
\* delivered to every member.  Hence a connection that left r or disconnected
\* receives nothing addressed to r until it joins again, and a connection
\* that joined r and neither left nor disconnected receives every message
\* addressed to r.
C37_RoomDelivery ==
  [][steps' = steps + 1 =>
       LET c == handled'.conn
           e == handled'.ev
       IN /\ e = "leave" => c \notin Members(rooms', handled'.room)
          /\ e = "disconnect" =>
               \A r \in RoomNames : c \notin Members(rooms', r)
          /\ e \in {"join", "room:create"} =>
               c \in Members(rooms', handled'.room)
          /\ \A d \in Conns, r \in RoomNames :
               /\ (d \notin Members(rooms, r) /\ d \in Members(rooms', r)) =>
                    /\ d = c
                    /\ \/ e \in {"join", "room:create"} /\ handled'.room = r
                       \/ e = "connect"
               /\ (d \in Members(rooms, r) /\ d \notin Members(rooms', r)) =>
                    /\ d = c
                    /\ \/ e = "leave" /\ handled'.room = r
                       \/ e = "disconnect"
          /\ (e \in RoomAddressed /\ handled'.room # NoRoom) =>
               \A i \in 1..Len(emitted') :
                 /\ emitted'[i].to \subseteq Members(rooms', handled'.room)
                 /\ e = "message" =>
                      emitted'[i].to = Members(rooms', handled'.room)]_vars

\* A connection c that left the room named by its own id (which it entered
\* when it connected) is not delivered the message that has just been
\* addressed to that room, and another connection, which joined the room and
\* is still a member, is delivered it.
C37_Witness ==
  /\ handled.ev = "message"
  /\ Len(emitted) = 1
  /\ \E c, d \in Sockets :
       /\ c # d
       /\ handled.room = c
       /\ c \notin Members(rooms, c)
       /\ c \notin emitted[1].to
       /\ d \in Members(rooms, c)
       /\ d \in emitted[1].to

(***************************************************************************)
(* REST route to one user (C38).                                           *)
(***************************************************************************)
\* C38: where the route is mounted and the request passes the API
\* authentication, a request without event or data is answered 400 and
\* emits nothing; otherwise, when the presence registry of the serving
\* process holds a record for the connection id of the request, the event is
\* emitted to exactly that connection, and when it holds none the request is
\* answered 404 and emits nothing; a connected connection that never sent
\* user:join is never delivered an emission of this route.
C38_RestUserMessage ==
  (/\ handled.ev = "rest.userMessage"
   /\ RestMounted(handled.proc)
   /\ RestAuthorized(handled.args.bearer)) =>
    /\ IF Incomplete(handled.args.body)
       THEN handled.status = 400 /\ emitted = <<>>
       ELSE IF GetUser(handled.proc, handled.args.userId) # Undefined
            THEN /\ Len(emitted) = 1
                 /\ emitted[1].ev = handled.args.body.event
                 /\ emitted[1].to = {handled.args.userId}
            ELSE handled.status = 404 /\ emitted = <<>>
    /\ \A c \in Sockets :
         joins[c] = 0 => \A i \in 1..Len(emitted) : c \notin emitted[i].to

====
